---- MODULE Spec2Model ----
(***************************************************************************)
(* Chart / table data binding and rendering of the report designer        *)
(* (src/components/CanvasElement.tsx): resolveData, renderChart,          *)
(* renderTable and getRenderContent, as a function of                     *)
(* (element, previewMode, dataContext).                                   *)
(*                                                                         *)
(* JavaScript values are tagged records.  Strings are sequences of        *)
(* one-character strings so that split('.'), includes(), toLowerCase()    *)
(* and charCodeAt() are computed, not assumed.  Numbers are exact         *)
(* rationals plus NaN and the two infinities: IEEE-754 rounding is not    *)
(* modelled, a pie angle is kept as a fraction of a full turn (2*PI).     *)
(* Objects carry their own data properties; strings and arrays have their *)
(* length and their indices; methods and other inherited properties are   *)
(* outside the model.                                                      *)
(*                                                                         *)
(* The editor (src/unnamed/part_005, src/App.tsx, src/unnamed/part_001):   *)
(* the element list with its history, selection and clipboard, and the    *)
(* JSON export and import of a template.                                   *)
(***************************************************************************)
EXTENDS Integers, Sequences, FiniteSets, TLC

VARIABLES
    \* one element on the canvas and what is drawn for it
    element, previewMode, dataContext, rendered, edits,
    \* one call of resolveData: its arguments and what it returned
    resolvePath, resolveRoot, resolved,
    \* the editor: useState of App, the exported file, and the last operation
    elements, history, historyIndex, selectedId, clipboard, exportFile, lastOp,
    operations,
    \* what is under way: the resize gesture of the mouse, and the request
    \* of handleAiLayoutFix
    resizing, layoutRequest

canvasVars == <<element, previewMode, dataContext, rendered, edits>>
resolveVars == <<resolvePath, resolveRoot, resolved>>
editorVars == <<elements, history, historyIndex, selectedId, clipboard, exportFile, lastOp,
                operations>>

pendingVars == <<resizing, layoutRequest>>

vars == <<canvasVars, resolveVars, editorVars, pendingVars>>

(***************************************************************************)
(* Strings                                                                 *)
(***************************************************************************)
Lower == <<"a","b","c","d","e","f","g","h","i","j","k","l","m",
           "n","o","p","q","r","s","t","u","v","w","x","y","z">>
Upper == <<"A","B","C","D","E","F","G","H","I","J","K","L","M",
           "N","O","P","Q","R","S","T","U","V","W","X","Y","Z">>
Digits == <<"0","1","2","3","4","5","6","7","8","9">>

IsIn(c, seq) == \E i \in 1..Len(seq) : seq[i] = c
IndexOf(c, seq) == CHOOSE i \in 1..Len(seq) : seq[i] = c

\* String.prototype.charCodeAt(0) of a one-character string (ASCII).
charCodeAt(c) ==
    IF IsIn(c, Lower) THEN 96 + IndexOf(c, Lower)
    ELSE IF IsIn(c, Upper) THEN 64 + IndexOf(c, Upper)
    ELSE IF IsIn(c, Digits) THEN 47 + IndexOf(c, Digits)
    ELSE IF c = "." THEN 46
    ELSE IF c = "_" THEN 95
    ELSE IF c = " " THEN 32
    ELSE IF c = "-" THEN 45
    ELSE 63

\* String.prototype.toLowerCase
toLowerCase(s) ==
    [i \in 1..Len(s) |-> IF IsIn(s[i], Upper) THEN Lower[IndexOf(s[i], Upper)] ELSE s[i]]

\* String.prototype.includes
includes(s, sub) ==
    \E i \in 0..(Len(s) - Len(sub)) : SubSeq(s, i + 1, i + Len(sub)) = sub

\* String.prototype.substring(0, n)
substring0(s, n) == SubSeq(s, 1, IF Len(s) < n THEN Len(s) ELSE n)

\* String.prototype.split('.'): the segments between the dots, empty ones kept.
RECURSIVE splitFrom(_, _, _)
splitFrom(s, i, cur) ==
    IF i > Len(s) THEN <<cur>>
    ELSE IF s[i] = "." THEN <<cur>> \o splitFrom(s, i + 1, <<>>)
    ELSE splitFrom(s, i + 1, Append(cur, s[i]))

split(s) == splitFrom(s, 1, <<>>)

(***************************************************************************)
(* Numbers: exact rationals n/d (d > 0, lowest terms), NaN, +-Infinity     *)
(***************************************************************************)
Abs(n) == IF n < 0 THEN -n ELSE n

RECURSIVE Gcd(_, _)
Gcd(a, b) == IF b = 0 THEN a ELSE Gcd(b, a % b)

Fin(n, d) ==
    LET g == Gcd(Abs(n), Abs(d))
        sg == IF d < 0 THEN -1 ELSE 1
    IN [t |-> "number", k |-> "fin", n |-> (sg * n) \div g, d |-> (sg * d) \div g]

Num(n) == [t |-> "number", k |-> "fin", n |-> n, d |-> 1]
NaN == [t |-> "number", k |-> "nan", n |-> 0, d |-> 1]
PosInf == [t |-> "number", k |-> "inf", n |-> 1, d |-> 1]
NegInf == [t |-> "number", k |-> "inf", n |-> -1, d |-> 1]

isNaN(a) == a.k = "nan"
isFinite(a) == a.k = "fin"
Sign(a) == IF a.n > 0 THEN 1 ELSE IF a.n < 0 THEN -1 ELSE 0
InfOf(sg) == IF sg > 0 THEN PosInf ELSE NegInf

\* a + b
NumAdd(a, b) ==
    IF isNaN(a) \/ isNaN(b) THEN NaN
    ELSE IF a.k = "inf" /\ b.k = "inf" THEN (IF a.n = b.n THEN a ELSE NaN)
    ELSE IF a.k = "inf" THEN a
    ELSE IF b.k = "inf" THEN b
    ELSE Fin(a.n * b.d + b.n * a.d, a.d * b.d)

\* a * b
NumMul(a, b) ==
    IF isNaN(a) \/ isNaN(b) THEN NaN
    ELSE IF a.k = "inf" \/ b.k = "inf"
         THEN (IF Sign(a) * Sign(b) = 0 THEN NaN ELSE InfOf(Sign(a) * Sign(b)))
    ELSE Fin(a.n * b.n, a.d * b.d)

\* a / b (signed zeros are not told apart: x / 0 is +-Infinity by the sign of x)
NumDiv(a, b) ==
    IF isNaN(a) \/ isNaN(b) THEN NaN
    ELSE IF a.k = "inf" THEN (IF b.k = "inf" THEN NaN
                              ELSE InfOf(Sign(a) * (IF Sign(b) < 0 THEN -1 ELSE 1)))
    ELSE IF b.k = "inf" THEN Num(0)
    ELSE IF b.n = 0 THEN (IF a.n = 0 THEN NaN ELSE InfOf(Sign(a)))
    ELSE Fin(a.n * b.d, a.d * b.n)

NumNeg(a) == IF a.k = "nan" THEN NaN ELSE [a EXCEPT !.n = -a.n]
NumSub(a, b) == NumAdd(a, NumNeg(b))

\* a < b (false when either is NaN)
NumLt(a, b) ==
    IF isNaN(a) \/ isNaN(b) THEN FALSE
    ELSE IF a.k = "inf" THEN a.n < 0 /\ ~(b.k = "inf" /\ b.n < 0)
    ELSE IF b.k = "inf" THEN b.n > 0
    ELSE a.n * b.d < b.n * a.d

NumLe(a, b) == ~isNaN(a) /\ ~isNaN(b) /\ ~NumLt(b, a)

\* Math.max(a, b): NaN when either is NaN
MathMax2(a, b) ==
    IF isNaN(a) \/ isNaN(b) THEN NaN ELSE IF NumLt(a, b) THEN b ELSE a

\* Math.min(a, b)
MathMin2(a, b) ==
    IF isNaN(a) \/ isNaN(b) THEN NaN ELSE IF NumLt(b, a) THEN b ELSE a

\* Math.max(...xs, last)
RECURSIVE MathMax(_, _)
MathMax(xs, last) ==
    IF xs = <<>> THEN last ELSE MathMax2(Head(xs), MathMax(Tail(xs), last))

\* Math.floor((Math.sin(n) + 1) * 40) for the integers n = 0 .. 799
SinTable == <<
    40, 73, 76, 45, 9, 1, 28, 66, 79, 56, 18, 0, 18, 56, 79, 66, 28, 1, 9, 45,
    76, 73, 39, 6, 3, 34, 70, 78, 50, 13, 0, 23, 62, 79, 61, 22, 0, 14, 51, 78,
    69, 33, 3, 6, 40, 74, 76, 44, 9, 1, 29, 66, 79, 55, 17, 0, 19, 57, 79, 65,
    27, 1, 10, 46, 76, 73, 38, 5, 4, 35, 70, 78, 50, 12, 0, 24, 62, 79, 60, 22,
    0, 14, 52, 78, 69, 32, 3, 7, 41, 74, 75, 44, 8, 2, 30, 67, 79, 55, 17, 0,
    19, 58, 79, 64, 27, 1, 10, 47, 77, 72, 38, 5, 4, 36, 71, 77, 49, 12, 0, 25,
    63, 79, 59, 21, 0, 15, 53, 78, 68, 32, 2, 7, 42, 74, 75, 43, 8, 2, 30, 67,
    79, 54, 16, 0, 20, 58, 79, 64, 26, 1, 11, 48, 77, 72, 37, 5, 4, 36, 71, 77,
    48, 11, 0, 25, 63, 79, 59, 20, 0, 15, 53, 79, 68, 31, 2, 7, 42, 75, 75, 42,
    7, 2, 31, 68, 79, 53, 15, 0, 20, 59, 79, 63, 25, 0, 11, 48, 77, 71, 36, 4,
    5, 37, 72, 77, 48, 11, 1, 26, 64, 79, 58, 20, 0, 16, 54, 79, 67, 30, 2, 8,
    43, 75, 74, 42, 7, 2, 32, 68, 78, 53, 15, 0, 21, 59, 79, 63, 25, 0, 12, 49,
    77, 71, 36, 4, 5, 38, 72, 77, 47, 10, 1, 27, 64, 79, 58, 19, 0, 17, 55, 79,
    67, 30, 2, 8, 44, 75, 74, 41, 7, 3, 32, 69, 78, 52, 14, 0, 22, 60, 79, 62,
    24, 0, 12, 50, 78, 70, 35, 4, 5, 38, 73, 76, 46, 10, 1, 27, 65, 79, 57, 19,
    0, 17, 55, 79, 66, 29, 1, 9, 44, 76, 74, 40, 6, 3, 33, 69, 78, 51, 14, 0,
    22, 61, 79, 62, 23, 0, 13, 50, 78, 70, 34, 3, 6, 39, 73, 76, 45, 9, 1, 28,
    66, 79, 56, 18, 0, 18, 56, 79, 66, 28, 1, 9, 45, 76, 73, 39, 6, 3, 34, 70,
    78, 51, 13, 0, 23, 61, 79, 61, 23, 0, 13, 51, 78, 70, 34, 3, 6, 40, 73, 76,
    45, 9, 1, 29, 66, 79, 56, 17, 0, 18, 57, 79, 65, 28, 1, 10, 46, 76, 73, 39,
    5, 3, 35, 70, 78, 50, 13, 0, 24, 62, 79, 60, 22, 0, 14, 52, 78, 69, 33, 3,
    6, 41, 74, 75, 44, 9, 1, 29, 67, 79, 55, 17, 0, 19, 57, 79, 65, 27, 1, 10,
    47, 76, 72, 38, 5, 4, 35, 71, 77, 49, 12, 0, 24, 62, 79, 60, 21, 0, 15, 52,
    78, 69, 32, 2, 7, 41, 74, 75, 43, 8, 2, 30, 67, 79, 54, 16, 0, 20, 58, 79,
    64, 26, 1, 11, 47, 77, 72, 37, 5, 4, 36, 71, 77, 49, 12, 0, 25, 63, 79, 59,
    21, 0, 15, 53, 78, 68, 31, 2, 7, 42, 74, 75, 43, 8, 2, 31, 68, 79, 54, 16,
    0, 20, 59, 79, 64, 26, 0, 11, 48, 77, 72, 37, 4, 4, 37, 72, 77, 48, 11, 0,
    26, 64, 79, 59, 20, 0, 16, 54, 79, 68, 31, 2, 8, 43, 75, 74, 42, 7, 2, 31,
    68, 78, 53, 15, 0, 21, 59, 79, 63, 25, 0, 12, 49, 77, 71, 36, 4, 5, 37, 72,
    77, 47, 11, 1, 26, 64, 79, 58, 20, 0, 16, 54, 79, 67, 30, 2, 8, 43, 75, 74,
    41, 7, 2, 32, 69, 78, 52, 15, 0, 21, 60, 79, 62, 24, 0, 12, 49, 77, 71, 35,
    4, 5, 38, 72, 76, 47, 10, 1, 27, 65, 79, 57, 19, 0, 17, 55, 79, 67, 29, 1,
    9, 44, 75, 74, 41, 6, 3, 33, 69, 78, 52, 14, 0, 22, 60, 79, 62, 24, 0, 13,
    50, 78, 70, 35, 3, 5, 39, 73, 76, 46, 10, 1, 28, 65, 79, 57, 18, 0, 17, 56,
    79, 66, 29, 1, 9, 45, 76, 73, 40, 6, 3, 34, 70, 78, 51, 13, 0, 23, 61, 79,
    61, 23, 0, 13, 51, 78, 70, 34, 3, 6, 40, 73, 76, 45, 9, 1, 28, 66, 79, 56,
    18, 0, 18, 56, 79, 66, 28, 1, 9, 45, 76, 73, 39, 6, 3, 34, 70, 78, 50, 13,
    0, 23, 62, 79, 61, 22, 0, 14, 51, 78, 69, 33, 3, 6, 40, 74, 76, 44, 9, 1,
    29, 66, 79, 55, 17, 0, 19, 57, 79, 65, 27, 1, 10, 46, 76, 73, 38, 5, 4, 35,
    70, 78, 50, 12, 0, 24, 62, 79, 60, 22, 0, 14, 52, 78, 69, 32, 3, 7, 41, 74
>>

MathFloorSin40(n) == SinTable[n + 1]

(***************************************************************************)
(* JavaScript values                                                       *)
(***************************************************************************)
Undefined == [t |-> "undefined"]
Null == [t |-> "null"]
Bool(b) == [t |-> "boolean", b |-> b]
Str(s) == [t |-> "string", s |-> s]
Obj(f) == [t |-> "object", f |-> f]
Arr(items) == [t |-> "array", items |-> items]
\* A React element (the value of a JSX expression): an object.
Jsx(text) == [t |-> "jsx", text |-> text]
\* The outcome of an expression that threw a TypeError.
Thrown == [t |-> "throw"]

EmptyObj == Obj([k \in {} |-> Undefined])

\* ToBoolean
Truthy(v) ==
    CASE v.t = "undefined" -> FALSE
      [] v.t = "null" -> FALSE
      [] v.t = "boolean" -> v.b
      [] v.t = "number" -> ~isNaN(v) /\ ~(v.k = "fin" /\ v.n = 0)
      [] v.t = "string" -> v.s # <<>>
      [] OTHER -> TRUE

\* a || b
OrElse(a, b) == IF Truthy(a) THEN a ELSE b

\* Array.isArray
isArray(v) == v.t = "array"

RECURSIVE DigitsValue(_)
DigitsValue(s) ==
    IF s = <<>> THEN 0
    ELSE 10 * DigitsValue(SubSeq(s, 1, Len(s) - 1)) + (IndexOf(s[Len(s)], Digits) - 1)

AllDigits(s) == s # <<>> /\ \A i \in 1..Len(s) : IsIn(s[i], Digits)

\* Number(<string>): '' is 0, an optionally signed run of digits is its value,
\* anything else is NaN (the strings of this model hold no blanks, no decimal
\* point and no exponent).
StringToNumber(s) ==
    IF s = <<>> THEN Num(0)
    ELSE IF AllDigits(s) THEN Num(DigitsValue(s))
    ELSE IF s[1] = "-" /\ AllDigits(Tail(s)) THEN Num(-DigitsValue(Tail(s)))
    ELSE NaN

RECURSIVE NatToString(_)
NatToString(n) ==
    IF n < 10 THEN <<Digits[n + 1]>>
    ELSE NatToString(n \div 10) \o <<Digits[(n % 10) + 1]>>

\* String(<number>); every number that reaches a text in this model is an
\* integer, NaN or an infinity.
NumberToString(a) ==
    IF isNaN(a) THEN <<"N","a","N">>
    ELSE IF a.k = "inf"
         THEN (IF a.n < 0 THEN <<"-">> ELSE <<>>) \o <<"I","n","f","i","n","i","t","y">>
    ELSE (IF a.n < 0 THEN <<"-">> ELSE <<>>) \o NatToString(Abs(a.n))
         \o (IF a.d = 1 THEN <<>> ELSE <<"/">> \o NatToString(a.d))

ObjectObject == <<"[","o","b","j","e","c","t"," ","O","b","j","e","c","t","]">>

RECURSIVE ToStringValue(_)
RECURSIVE JoinItems(_, _)
\* Array.prototype.join(','): null and undefined items give ''
JoinItems(items, i) ==
    IF i > Len(items) THEN <<>>
    ELSE (IF i > 1 THEN <<",">> ELSE <<>>)
         \o (IF items[i].t \in {"undefined", "null"} THEN <<>> ELSE ToStringValue(items[i]))
         \o JoinItems(items, i + 1)

\* String(v)
ToStringValue(v) ==
    CASE v.t = "undefined" -> <<"u","n","d","e","f","i","n","e","d">>
      [] v.t = "null" -> <<"n","u","l","l">>
      [] v.t = "boolean" -> IF v.b THEN <<"t","r","u","e">> ELSE <<"f","a","l","s","e">>
      [] v.t = "number" -> NumberToString(v)
      [] v.t = "string" -> v.s
      [] v.t = "array" -> JoinItems(v.items, 1)
      [] OTHER -> ObjectObject

\* Number(v)
ToNumber(v) ==
    CASE v.t = "undefined" -> NaN
      [] v.t = "null" -> Num(0)
      [] v.t = "boolean" -> IF v.b THEN Num(1) ELSE Num(0)
      [] v.t = "number" -> v
      [] v.t = "string" -> StringToNumber(v.s)
      [] v.t = "array" -> StringToNumber(JoinItems(v.items, 1))
      [] OTHER -> NaN

s_length == <<"l","e","n","g","t","h">>

\* A canonical array index: "0", "1", "2", ...
isIndex(k) == AllDigits(k) /\ (Len(k) = 1 \/ k[1] # "0")

\* v[k]: a TypeError on undefined and null, an own data property of an
\* object, the length or an indexed item of a string and of an array,
\* undefined otherwise.
Prop(v, k) ==
    CASE v.t \in {"undefined", "null", "throw"} -> Thrown
      [] v.t = "object" -> IF k \in DOMAIN v.f THEN v.f[k] ELSE Undefined
      [] v.t = "string" ->
            IF k = s_length THEN Num(Len(v.s))
            ELSE IF isIndex(k) /\ DigitsValue(k) < Len(v.s) THEN Str(<<v.s[DigitsValue(k) + 1]>>)
            ELSE Undefined
      [] v.t = "array" ->
            IF k = s_length THEN Num(Len(v.items))
            ELSE IF isIndex(k) /\ DigitsValue(k) < Len(v.items) THEN v.items[DigitsValue(k) + 1]
            ELSE Undefined
      [] OTHER -> Undefined

\* The reducer with a test for undefined and null only:
\* (prev, curr) => prev != null ? prev[curr] : undefined
RECURSIVE reduceNullish(_, _, _)
reduceNullish(segs, i, prev) ==
    IF i > Len(segs) THEN prev
    ELSE reduceNullish(segs, i + 1,
                       IF prev.t \in {"undefined", "null"} THEN Undefined ELSE Prop(prev, segs[i]))

resolveDataNullish(p, obj) == reduceNullish(split(p), 1, obj)

\* The reducer without its guard: (prev, curr) => prev[curr]
RECURSIVE reduceUnguarded(_, _, _)
reduceUnguarded(segs, i, prev) ==
    IF i > Len(segs) THEN prev ELSE reduceUnguarded(segs, i + 1, Prop(prev, segs[i]))

resolveDataUnguarded(path, obj) == reduceUnguarded(split(path), 1, obj)

RECURSIVE reduceResolve(_, _, _)
reduceResolve(segs, i, prev) ==
    IF i > Len(segs) THEN prev
    ELSE reduceResolve(segs, i + 1, IF Truthy(prev) THEN Prop(prev, segs[i]) ELSE Undefined)

\* resolveData(path, obj) ==
\*   path.split('.').reduce((prev, curr) => prev ? prev[curr] : undefined, obj)
resolveData(path, obj) == reduceResolve(split(path), 1, obj)

(***************************************************************************)
(* Literal strings of the source                                           *)
(***************************************************************************)
s_bar == <<"b","a","r">>
s_line == <<"l","i","n","e">>
s_pie == <<"p","i","e">>
s_bottom == <<"b","o","t","t","o","m">>
s_top == <<"t","o","p">>
s_left == <<"l","e","f","t">>
s_right == <<"r","i","g","h","t">>
s_label == <<"l","a","b","e","l">>
s_value == <<"v","a","l","u","e">>
s_Value == <<"V","a","l","u","e">>
s_month == <<"m","o","n","t","h">>
s_year == <<"y","e","a","r">>
s_day == <<"d","a","y">>
s_product == <<"p","r","o","d","u","c","t">>
s_Item == <<"I","t","e","m"," ">>

CHART_PALETTE == <<"#6366f1", "#a855f7", "#ec4899", "#f43f5e", "#f97316",
                   "#eab308", "#22c55e", "#06b6d4", "#3b82f6", "#8b5cf6">>

(***************************************************************************)
(* renderChart: data resolution                                            *)
(***************************************************************************)
\* const series = element.series || [{ id: '1', dataKey: 'value', ... }]
chartSeries(el) ==
    IF Truthy(el.series) THEN el.series.items
    ELSE <<[id |-> "1", dataKey |-> s_value, label |-> s_Value, color |-> "#6366f1"]>>

\* const categoryKey = element.style.chartCategoryKey || 'label'
chartCategoryKey(el) == OrElse(el.style.chartCategoryKey, Str(s_label)).s

\* The generic sequence for every category key (the substring tests left out).
dummyCategoriesGeneric(categoryKey) ==
    << <<"I","t","e","m"," ","A">>, <<"I","t","e","m"," ","B">>, <<"I","t","e","m"," ","C">>,
       <<"I","t","e","m"," ","D">>, <<"I","t","e","m"," ","E">> >>

\* The category sequence of the dummy data, by substring of the category key.
dummyCategories(categoryKey) ==
    LET lc == toLowerCase(categoryKey) IN
    IF includes(lc, s_month)
      THEN << <<"J","a","n">>, <<"F","e","b">>, <<"M","a","r">>, <<"A","p","r">>, <<"M","a","y">> >>
    ELSE IF includes(lc, s_year)
      THEN << <<"2","0","2","0">>, <<"2","0","2","1">>, <<"2","0","2","2">>,
              <<"2","0","2","3">>, <<"2","0","2","4">> >>
    ELSE IF includes(lc, s_day)
      THEN << <<"M","o","n">>, <<"T","u","e">>, <<"W","e","d">>, <<"T","h","u">>, <<"F","r","i">> >>
    ELSE IF includes(lc, s_product)
      THEN << <<"L","a","p","t","o","p">>, <<"M","o","u","s","e">>, <<"S","c","r","e","e","n">>,
              <<"K","e","y","b","o","a","r","d">>, <<"D","o","c","k">> >>
    ELSE << <<"I","t","e","m"," ","A">>, <<"I","t","e","m"," ","B">>, <<"I","t","e","m"," ","C">>,
            <<"I","t","e","m"," ","D">>, <<"I","t","e","m"," ","E">> >>

\* s.dataKey.split('').reduce((acc, char) => acc + char.charCodeAt(0), 0)
RECURSIVE dummySeed(_)
dummySeed(dataKey) ==
    IF dataKey = <<>> THEN 0
    ELSE charCodeAt(Head(dataKey)) + dummySeed(Tail(dataKey))

\* Math.floor((Math.sin(i + seed) + 1) * 40) + 20, i the 0-based row index
dummyValue(i, dataKey) == MathFloorSin40(i + dummySeed(dataKey)) + 20

\* row[k] = v on an object's property map
SetProp(f, k, v) == [x \in (DOMAIN f) \cup {k} |-> IF x = k THEN v ELSE f[x]]

\* series.forEach(s => { row[s.dataKey] = ... }) from series index si on
RECURSIVE dummyRowFill(_, _, _, _)
dummyRowFill(f, i, series, si) ==
    IF si > Len(series) THEN f
    ELSE dummyRowFill(SetProp(f, series[si].dataKey, Num(dummyValue(i, series[si].dataKey))),
                      i, series, si + 1)

\* The generator with the series position idx added to the seed:
\* Math.sin(i + seed + idx)
RECURSIVE dummyRowFillByPosition(_, _, _, _)
dummyRowFillByPosition(f, i, series, si) ==
    IF si > Len(series) THEN f
    ELSE dummyRowFillByPosition(
            SetProp(f, series[si].dataKey,
                    Num(MathFloorSin40(i + dummySeed(series[si].dataKey) + (si - 1)) + 20)),
            i, series, si + 1)

dummyRowByPosition(cat, i, series, categoryKey) ==
    Obj(dummyRowFillByPosition([k \in {categoryKey} |-> Str(cat)], i, series, 1))

\* const row = { [categoryKey]: cat }; series.forEach(...); return row
dummyRow(cat, i, series, categoryKey) ==
    Obj(dummyRowFill([k \in {categoryKey} |-> Str(cat)], i, series, 1))

\* data = categories.map((cat, i) => ...)
dummyData(series, categoryKey) ==
    LET categories == dummyCategories(categoryKey) IN
    [n \in 1..Len(categories) |-> dummyRow(categories[n], n - 1, series, categoryKey)]

\* The default parameter dataContext = {} of the component.
contextOrDefault(dc) == IF dc.t = "undefined" THEN EmptyObj ELSE dc

\* The binding test without previewMode: element.key alone
readsContextInEditMode(el, pm) == Truthy(el.key)

\* previewMode && element.key: the element reads the data context
readsContext(el, pm) == pm /\ Truthy(el.key)

\* Data resolution without the else branch that sets isError: a key that is
\* no array leaves data = [].
chartDataNoError(el, pm, dc) ==
    IF readsContext(el, pm)
    THEN LET rawData == resolveData(el.key.s, contextOrDefault(dc)) IN
         IF rawData.t = "throw" THEN [data |-> <<>>, isError |-> FALSE, threw |-> TRUE]
         ELSE IF isArray(rawData) THEN [data |-> rawData.items, isError |-> FALSE, threw |-> FALSE]
         ELSE [data |-> <<>>, isError |-> FALSE, threw |-> FALSE]
    ELSE [data |-> dummyData(chartSeries(el), chartCategoryKey(el)),
          isError |-> FALSE, threw |-> FALSE]

\* Data resolution of renderChart: the rows, and whether the key is not an array.
chartData(el, pm, dc) ==
    IF readsContext(el, pm)
    THEN LET rawData == resolveData(el.key.s, contextOrDefault(dc)) IN
         IF rawData.t = "throw" THEN [data |-> <<>>, isError |-> FALSE, threw |-> TRUE]
         ELSE IF isArray(rawData) THEN [data |-> rawData.items, isError |-> FALSE, threw |-> FALSE]
         ELSE [data |-> <<>>, isError |-> TRUE, threw |-> FALSE]
    ELSE [data |-> dummyData(chartSeries(el), chartCategoryKey(el)),
          isError |-> FALSE, threw |-> FALSE]

(***************************************************************************)
(* renderChart: totals, scale and layout                                   *)
(***************************************************************************)
\* resolveData(s.dataKey, row) for every row and series
resolvedValues(series, data) ==
    [i \in 1..Len(data) |-> [si \in 1..Len(series) |-> resolveData(series[si].dataKey, data[i])]]

\* The value without its fallback: Number(resolveData(s.dataKey, row))
barValueNoFallback(raw) == ToNumber(raw)

\* Number(resolveData(s.dataKey, row) || 0)
barValue(raw) == ToNumber(OrElse(raw, Num(0)))

\* Row-major flattening of a rows x series matrix (data.flatMap(row => series.map(...)))
flatMap(m, nSeries) ==
    [n \in 1..(Len(m) * nSeries) |-> m[((n - 1) \div nSeries) + 1][((n - 1) % nSeries) + 1]]

RECURSIVE SumSeq(_)
SumSeq(xs) == IF xs = <<>> THEN Num(0) ELSE NumAdd(Head(xs), SumSeq(Tail(xs)))

\* const val = Number(resolveData(...)); sAcc + (isNaN(val) ? 0 : val)
totalTerm(raw) == LET val == ToNumber(raw) IN IF isNaN(val) THEN Num(0) ELSE val

\* Calculate Total
totalValue(series, raws) ==
    LET flat == flatMap(raws, Len(series)) IN
    SumSeq([n \in 1..Len(flat) |-> totalTerm(flat[n])])

\* const allValues = data.flatMap(row => series.map(s => Number(resolveData(..) || 0)))
allValues(series, raws) ==
    LET flat == flatMap(raws, Len(series)) IN
    [n \in 1..Len(flat) |-> barValue(flat[n])]

\* const maxValue = Math.max(...allValues, 10) * 1.1
maxValue(series, raws) == NumMul(MathMax(allValues(series, raws), Num(10)), Fin(11, 10))

\* element.style.chartShowLegend !== false
showLegend(el) == ~(el.style.chartShowLegend.t = "boolean" /\ ~el.style.chartShowLegend.b)
\* element.style.chartShowGrid !== false
showGrid(el) == ~(el.style.chartShowGrid.t = "boolean" /\ ~el.style.chartShowGrid.b)
legendPosition(el) == OrElse(el.style.chartLegendPosition, Str(s_bottom)).s
chartType(el) == OrElse(el.style.chartType, Str(s_bar)).s
isHorizontal(el) == legendPosition(el) \in {s_left, s_right}

\* The drawing area without the clamp at 0:
\* chartAreaWidth - padding.left - padding.right, and the like for the height.
chartLayoutUnclamped(el) ==
    LET containerWidth == OrElse(el.style.width, Num(400))
        containerHeight == OrElse(el.style.height, Num(300))
        chartAreaWidth ==
            IF showLegend(el) /\ isHorizontal(el)
            THEN NumSub(containerWidth, Num(100)) ELSE containerWidth
        areaHeight0 ==
            IF showLegend(el) /\ ~isHorizontal(el)
            THEN NumSub(containerHeight, Num(40)) ELSE containerHeight
        chartAreaHeight ==
            IF Truthy(el.content) THEN NumSub(areaHeight0, Num(24)) ELSE areaHeight0
    IN [chartAreaWidth |-> chartAreaWidth,
        chartAreaHeight |-> chartAreaHeight,
        drawWidth |-> NumSub(NumSub(chartAreaWidth, Num(30)), Num(10)),
        drawHeight |-> NumSub(NumSub(chartAreaHeight, Num(20)), Num(25))]

\* Chart area and drawing area from the element's size, legend and title.
chartLayout(el) ==
    LET containerWidth == OrElse(el.style.width, Num(400))
        containerHeight == OrElse(el.style.height, Num(300))
        chartAreaWidth ==
            IF showLegend(el) /\ isHorizontal(el)
            THEN NumSub(containerWidth, Num(100)) ELSE containerWidth
        areaHeight0 ==
            IF showLegend(el) /\ ~isHorizontal(el)
            THEN NumSub(containerHeight, Num(40)) ELSE containerHeight
        chartAreaHeight ==
            IF Truthy(el.content) THEN NumSub(areaHeight0, Num(24)) ELSE areaHeight0
    IN [chartAreaWidth |-> chartAreaWidth,
        chartAreaHeight |-> chartAreaHeight,
        drawWidth |-> MathMax2(Num(0), NumSub(NumSub(chartAreaWidth, Num(30)), Num(10))),
        drawHeight |-> MathMax2(Num(0), NumSub(NumSub(chartAreaHeight, Num(20)), Num(25)))]

\* const barGroupWidth = drawWidth / (data.length || 1)
barGroupWidth(drawWidth, nRows) == NumDiv(drawWidth, Num(IF nRows = 0 THEN 1 ELSE nRows))

\* The bar width without the division by the series count: barGroupWidth * 0.7
barWidthUndivided(groupWidth, nSeries) == NumMul(groupWidth, Fin(7, 10))

\* const barWidth = (barGroupWidth * 0.7) / series.length
barWidth(groupWidth, nSeries) == NumDiv(NumMul(groupWidth, Fin(7, 10)), Num(nSeries))

(***************************************************************************)
(* renderChart: geometry                                                   *)
(***************************************************************************)
\* The <rect> with height={barH}, without Math.max(0, barH).
barRectUnclamped(i, si, s, raw, maxV, drawHeight, groupWidth, bWidth, showLabels) ==
    LET xGroup == NumAdd(NumMul(Num(i), groupWidth), NumMul(groupWidth, Fin(15, 100)))
        val == barValue(raw)
        barH == NumMul(NumDiv(val, OrElse(maxV, Num(1))), drawHeight)
        x == NumAdd(xGroup, NumMul(Num(si), bWidth))
        y == NumSub(drawHeight, barH)
    IN [row |-> i, series |-> si, x |-> x, y |-> y, width |-> bWidth,
        height |-> barH, fill |-> s.color,
        label |-> IF showLabels THEN val ELSE Undefined]

\* The <rect> with height={Math.abs(barH)}.
barRectAbsolute(i, si, s, raw, maxV, drawHeight, groupWidth, bWidth, showLabels) ==
    LET xGroup == NumAdd(NumMul(Num(i), groupWidth), NumMul(groupWidth, Fin(15, 100)))
        val == barValue(raw)
        barH == NumMul(NumDiv(val, OrElse(maxV, Num(1))), drawHeight)
        x == NumAdd(xGroup, NumMul(Num(si), bWidth))
        y == NumSub(drawHeight, barH)
    IN [row |-> i, series |-> si, x |-> x, y |-> y, width |-> bWidth,
        height |-> IF NumLt(barH, Num(0)) THEN NumNeg(barH) ELSE barH, fill |-> s.color,
        label |-> IF showLabels THEN val ELSE Undefined]

\* One <rect> of the bar chart, row i and series si 0-based.
barRect(i, si, s, raw, maxV, drawHeight, groupWidth, bWidth, showLabels) ==
    LET xGroup == NumAdd(NumMul(Num(i), groupWidth), NumMul(groupWidth, Fin(15, 100)))
        val == barValue(raw)
        barH == NumMul(NumDiv(val, OrElse(maxV, Num(1))), drawHeight)
        x == NumAdd(xGroup, NumMul(Num(si), bWidth))
        y == NumSub(drawHeight, barH)
    IN [row |-> i, series |-> si, x |-> x, y |-> y, width |-> bWidth,
        height |-> MathMax2(Num(0), barH), fill |-> s.color,
        label |-> IF showLabels THEN val ELSE Undefined]

\* chartType === 'bar' && data.map((row, i) => series.map((s, si) => <rect .../>))
barRects(series, raws, maxV, drawHeight, groupWidth, bWidth, showLabels) ==
    LET nS == Len(series) IN
    [n \in 1..(Len(raws) * nS) |->
        LET i == (n - 1) \div nS
            si == (n - 1) % nS
        IN barRect(i, si, series[si + 1], raws[i + 1][si + 1], maxV, drawHeight,
                   groupWidth, bWidth, showLabels)]

\* A point of a polyline and its marker.
linePoint(i, raw, maxV, drawHeight, groupWidth) ==
    LET val == barValue(raw) IN
    [x |-> NumAdd(NumMul(Num(i), groupWidth), NumDiv(groupWidth, Num(2))),
     y |-> NumSub(drawHeight, NumMul(NumDiv(val, OrElse(maxV, Num(1))), drawHeight))]

\* chartType === 'line' && series.map((s, si) => <polyline/> + circles)
linePaths(series, raws, maxV, drawHeight, groupWidth) ==
    [si \in 1..Len(series) |->
        [stroke |-> series[si].color,
         points |-> [i \in 1..Len(raws) |->
                        linePoint(i - 1, raws[i][si], maxV, drawHeight, groupWidth)]]]

\* Number(resolveData(primarySeries?.dataKey || '', row) || 0)
pieValues(series, data) ==
    LET key == IF series = <<>> THEN <<>> ELSE series[1].dataKey IN
    [i \in 1..Len(data) |-> barValue(resolveData(key, data[i]))]

\* The slices with every wedge starting at angle 0 (startAngle never advanced).
pieSlicesFromZero(vals, total, n) ==
    [slices |-> [k \in 1..n |->
                    IF NumLe(vals[k], Num(0))
                    THEN [drawn |-> FALSE, row |-> k - 1, start |-> Num(0),
                          sliceAngle |-> Num(0), largeArcFlag |-> 0, fill |-> ""]
                    ELSE [drawn |-> TRUE, row |-> k - 1, start |-> Num(0),
                          sliceAngle |-> NumDiv(vals[k], total),
                          largeArcFlag |-> IF NumLt(Fin(1, 2), NumDiv(vals[k], total)) THEN 1 ELSE 0,
                          fill |-> CHART_PALETTE[((k - 1) % Len(CHART_PALETTE)) + 1]]],
     startAngle |-> Num(0)]

\* data.map((row, i) => ...) of the pie: the slices of rows 1..n, the angles as
\* fractions of a full turn; a skipped row (val <= 0) has drawn = FALSE.
RECURSIVE pieSlicesUpTo(_, _, _)
pieSlicesUpTo(vals, total, n) ==
    IF n = 0 THEN [slices |-> <<>>, startAngle |-> Num(0)]
    ELSE LET before == pieSlicesUpTo(vals, total, n - 1)
             val == vals[n]
         IN IF NumLe(val, Num(0))
            THEN [slices |-> Append(before.slices,
                                    [drawn |-> FALSE, row |-> n - 1, start |-> before.startAngle,
                                     sliceAngle |-> Num(0), largeArcFlag |-> 0, fill |-> ""]),
                  startAngle |-> before.startAngle]
            ELSE LET sliceAngle == NumDiv(val, total) IN
                 [slices |-> Append(before.slices,
                                    [drawn |-> TRUE, row |-> n - 1, start |-> before.startAngle,
                                     sliceAngle |-> sliceAngle,
                                     largeArcFlag |-> IF NumLt(Fin(1, 2), sliceAngle) THEN 1 ELSE 0,
                                     fill |-> CHART_PALETTE[((n - 1) % Len(CHART_PALETTE)) + 1]]),
                  startAngle |-> NumAdd(before.startAngle, sliceAngle)]

\* The pie <g> without the test of total === 0.
pieChartNoEmptyTest(series, data, drawWidth, drawHeight, showTotal) ==
    LET vals == pieValues(series, data)
        total == SumSeq(vals)
    IN [noData |-> FALSE, total |-> total,
        radius |-> NumDiv(MathMin2(drawWidth, drawHeight), Num(2)),
        slices |-> pieSlicesUpTo(vals, total, Len(vals)).slices,
        donut |-> showTotal]

\* The pie <g>: 'No Data' when total === 0, else the slices and the donut hole.
pieChart(series, data, drawWidth, drawHeight, showTotal) ==
    LET vals == pieValues(series, data)
        total == SumSeq(vals)
        radius == NumDiv(MathMin2(drawWidth, drawHeight), Num(2))
    IN IF total = Num(0)
       THEN [noData |-> TRUE, total |-> total, radius |-> radius, slices |-> <<>>,
             donut |-> FALSE]
       ELSE [noData |-> FALSE, total |-> total, radius |-> radius,
             slices |-> pieSlicesUpTo(vals, total, Len(vals)).slices,
             donut |-> showTotal]

\* X-Axis Labels: String(resolveData(categoryKey, row) || '').substring(0, 10)
xAxisLabels(categoryKey, data, groupWidth) ==
    [i \in 1..Len(data) |->
        [x |-> NumAdd(NumMul(Num(i - 1), groupWidth), NumDiv(groupWidth, Num(2))),
         text |-> substring0(ToStringValue(OrElse(resolveData(categoryKey, data[i]), Str(<<>>))), 10)]]

\* Determine Legend Items
legendItems(ctype, series, categoryKey, data) ==
    IF ctype = s_pie
    THEN [i \in 1..Len(data) |->
            [label |-> ToStringValue(OrElse(resolveData(categoryKey, data[i]),
                                            Str(s_Item \o NatToString(i)))),
             color |-> CHART_PALETTE[((i - 1) % Len(CHART_PALETTE)) + 1]]]
    ELSE [si \in 1..Len(series) |->
            [label |-> IF series[si].label # <<>> THEN series[si].label ELSE series[si].dataKey,
             color |-> series[si].color]]

\* Math.round(x)
MathRound(a) ==
    IF ~isFinite(a) THEN a
    ELSE LET m == 2 * a.n + a.d
             q == 2 * a.d
         IN Num(IF m >= 0 THEN m \div q ELSE -((-m + q - 1) \div q))

\* Grid Lines: ticks 0, 0.25, 0.5, 0.75, 1
gridLines(maxV, drawHeight) ==
    [i \in 1..5 |->
        LET tick == Fin(i - 1, 4) IN
        [y |-> NumAdd(Num(20), NumMul(drawHeight, NumSub(Num(1), tick))),
         text |-> MathRound(NumMul(maxV, tick))]]

\* renderChart
renderChart(el, pm, dc) ==
    LET series == chartSeries(el)
        categoryKey == chartCategoryKey(el)
        cd == chartData(el, pm, dc)
        data == cd.data
        raws == resolvedValues(series, data)
        cats == [i \in 1..Len(data) |-> resolveData(categoryKey, data[i])]
        threw == \/ cd.threw
                 \/ \E i \in 1..Len(data) :
                       \/ cats[i].t = "throw"
                       \/ \E si \in 1..Len(series) : raws[i][si].t = "throw"
        ctype == chartType(el)
        showTotal == Truthy(el.style.chartShowTotal)
        showLabels == Truthy(el.style.chartShowDataLabels)
        maxV == maxValue(series, raws)
        layout == chartLayout(el)
        groupWidth == barGroupWidth(layout.drawWidth, Len(data))
        bWidth == barWidth(groupWidth, Len(series))
    IN IF threw THEN [kind |-> "exception"]
       ELSE IF cd.isError THEN [kind |-> "error", key |-> el.key.s]
       ELSE [kind |-> "chart",
             title |-> IF Truthy(el.content) THEN el.content ELSE Undefined,
             totalBadge |-> IF showTotal /\ ctype # s_pie THEN totalValue(series, raws) ELSE Undefined,
             viewBox |-> <<layout.chartAreaWidth, layout.chartAreaHeight>>,
             grid |-> IF showGrid(el) /\ ctype # s_pie THEN gridLines(maxV, layout.drawHeight) ELSE <<>>,
             axes |-> ctype # s_pie,
             bars |-> IF ctype = s_bar
                      THEN barRects(series, raws, maxV, layout.drawHeight, groupWidth, bWidth, showLabels)
                      ELSE <<>>,
             lines |-> IF ctype = s_line
                       THEN linePaths(series, raws, maxV, layout.drawHeight, groupWidth)
                       ELSE <<>>,
             pie |-> IF ctype = s_pie
                     THEN pieChart(series, data, layout.drawWidth, layout.drawHeight, showTotal)
                     ELSE Undefined,
             xLabels |-> IF ctype # s_pie THEN xAxisLabels(categoryKey, data, groupWidth) ELSE <<>>,
             legend |-> IF showLegend(el)
                        THEN [position |-> legendPosition(el),
                              items |-> legendItems(ctype, series, categoryKey, data)]
                        ELSE Undefined,
             calc |-> [series |-> series, data |-> data, maxValue |-> maxV,
                       drawWidth |-> layout.drawWidth, drawHeight |-> layout.drawHeight,
                       barGroupWidth |-> groupWidth, barWidth |-> bWidth]]

(***************************************************************************)
(* renderTable                                                             *)
(***************************************************************************)
\* const columns = element.columns || [Col 1 / col1, Col 2 / col2]
tableColumns(el) ==
    IF Truthy(el.columns) THEN el.columns.items
    ELSE <<[id |-> "1", header |-> "Col 1", accessorKey |-> <<"c","o","l","1">>],
           [id |-> "2", header |-> "Col 2", accessorKey |-> <<"c","o","l","2">>]>>

\* Data resolution of renderTable: let tableData = [1, 2, 3]; bound when the key is an array.
tableData(el, pm, dc) ==
    LET mock == [tableData |-> <<Num(1), Num(2), Num(3)>>, isBoundData |-> FALSE, threw |-> FALSE] IN
    IF readsContext(el, pm)
    THEN LET data == resolveData(el.key.s, contextOrDefault(dc)) IN
         IF data.t = "throw" THEN [mock EXCEPT !.threw = TRUE]
         ELSE IF isArray(data) THEN [tableData |-> data.items, isBoundData |-> TRUE, threw |-> FALSE]
         ELSE mock
    ELSE mock

\* cellContent: the resolved value when bound, else the <span>[accessorKey]</span> element
cellContent(isBoundData, accessorKey, row) ==
    IF isBoundData THEN resolveData(accessorKey, row)
    ELSE Jsx(<<"[">> \o accessorKey \o <<"]">>)

\* {cellContent !== undefined ? String(cellContent) : ''}
cellText(content) == IF content.t = "undefined" THEN <<>> ELSE ToStringValue(content)

renderTable(el, pm, dc) ==
    LET columns == tableColumns(el)
        td == tableData(el, pm, dc)
        contents == [r \in 1..Len(td.tableData) |->
                        [c \in 1..Len(columns) |->
                            cellContent(td.isBoundData, columns[c].accessorKey, td.tableData[r])]]
        threw == \/ td.threw
                 \/ \E r \in 1..Len(contents) : \E c \in 1..Len(columns) : contents[r][c].t = "throw"
    IN IF threw THEN [kind |-> "exception"]
       ELSE [kind |-> "table",
             badge |-> IF Truthy(el.key) /\ ~pm THEN el.key ELSE Undefined,
             headers |-> [c \in 1..Len(columns) |-> columns[c].header],
             isBoundData |-> td.isBoundData,
             rows |-> [r \in 1..Len(contents) |->
                         [striped |-> Truthy(el.style.tableStriped) /\ (r - 1) % 2 # 0,
                          cells |-> [c \in 1..Len(columns) |-> cellText(contents[r][c])]]]]

(***************************************************************************)
(* getRenderContent                                                        *)
(***************************************************************************)
\* case 'placeholder'
renderPlaceholder(el, pm, dc) ==
    LET template == <<"{","{"," ">> \o OrElse(el.key, Str(<<"v","a","r","i","a","b","l","e","_","n","a","m","e">>)).s \o <<" ","}","}">>
        val == IF readsContext(el, pm) THEN resolveData(el.key.s, contextOrDefault(dc)) ELSE Undefined
    IN IF val.t = "throw" THEN [kind |-> "exception"]
       ELSE [kind |-> "placeholder",
             text |-> IF val.t # "undefined" THEN ToStringValue(val) ELSE template]

getRenderContent(el, pm, dc) ==
    CASE el.type = "chart" -> renderChart(el, pm, dc)
      [] el.type = "table" -> renderTable(el, pm, dc)
      [] el.type = "placeholder" -> renderPlaceholder(el, pm, dc)
      [] OTHER -> [kind |-> "unknown"]

(***************************************************************************)
(* Inputs: keys, data contexts and templates                               *)
(***************************************************************************)
s_monthly_sales == <<"m","o","n","t","h","l","y","_","s","a","l","e","s">>
s_revenue == <<"r","e","v","e","n","u","e">>
s_cost == <<"c","o","s","t">>
s_profit == <<"p","r","o","f","i","t">>
s_employees == <<"e","m","p","l","o","y","e","e","s">>
s_name == <<"n","a","m","e">>
s_company == <<"c","o","m","p","a","n","y">>
s_report_date == <<"r","e","p","o","r","t","_","d","a","t","e">>
s_zeros == <<"z","e","r","o","s">>
s_mixed == <<"m","i","x","e","d">>
s_single == <<"s","i","n","g","l","e">>
s_empty == <<"e","m","p","t","y">>
s_report == <<"r","e","p","o","r","t">>
s_items == <<"i","t","e","m","s">>
s_ab == <<"a","b">>
s_ba == <<"b","a">>
s_id == <<"i","d">>
s_role == <<"r","o","l","e">>
s_salary == <<"s","a","l","a","r","y">>
s_user == <<"u","s","e","r">>
s_item == <<"i","t","e","m">>
s_qty == <<"q","t","y">>
s_price == <<"p","r","i","c","e">>
s_key == <<"k","e","y">>
s_new_variable == <<"n","e","w","_","v","a","r","i","a","b","l","e">>
s_a_b == <<"a",".","b">>
s_sales_month == <<"s","a","l","e","s",".","m","o","n","t","h">>
s_fiscalYear == <<"f","i","s","c","a","l","Y","e","a","r">>
s_report_items == <<"r","e","p","o","r","t",".","i","t","e","m","s">>
s_user_name_first == <<"u","s","e","r",".","n","a","m","e",".","f","i","r","s","t">>

Rec1(k1, v1) == Obj([k \in {k1} |-> v1])
Rec2(k1, v1, k2, v2) == Obj([k \in {k1, k2} |-> IF k = k1 THEN v1 ELSE v2])
Rec3(k1, v1, k2, v2, k3, v3) ==
    Obj([k \in {k1, k2, k3} |-> IF k = k1 THEN v1 ELSE IF k = k2 THEN v2 ELSE v3])
Rec4(k1, v1, k2, v2, k3, v3, k4, v4) ==
    Obj([k \in {k1, k2, k3, k4} |->
            IF k = k1 THEN v1 ELSE IF k = k2 THEN v2 ELSE IF k = k3 THEN v3 ELSE v4])

SalesRow(m, r, c, p) == Rec4(s_month, Str(m), s_revenue, Num(r), s_cost, Num(c), s_profit, Num(p))
EmployeeRow(i, n, r, sal) == Rec4(s_id, Str(i), s_name, Str(n), s_role, Str(r), s_salary, Str(sal))

\* const DEFAULT_TEST_DATA
DEFAULT_TEST_DATA ==
    Rec4(s_company, Str(<<"A","c","m","e"," ","C","o","r","p">>),
         s_report_date, Str(<<"2","0","2","3","-","1","0","-","2","7">>),
         s_monthly_sales,
            Arr(<<SalesRow(<<"J","a","n">>, 12000, 8000, 4000),
                  SalesRow(<<"F","e","b">>, 15000, 9000, 6000),
                  SalesRow(<<"M","a","r">>, 11000, 8500, 2500),
                  SalesRow(<<"A","p","r">>, 18000, 10000, 8000),
                  SalesRow(<<"M","a","y">>, 22000, 12000, 10000)>>),
         s_employees,
            Arr(<<EmployeeRow(<<"E","0","0","1">>, <<"A","l","i","c","e"," ","S","m","i","t","h">>, <<"S","e","n","i","o","r"," ","D","e","v","e","l","o","p","e","r">>, <<"$","1","2","0",",","0","0","0">>),
                  EmployeeRow(<<"E","0","0","2">>, <<"B","o","b"," ","J","o","n","e","s">>, <<"U","I"," ","D","e","s","i","g","n","e","r">>, <<"$","9","5",",","0","0","0">>),
                  EmployeeRow(<<"E","0","0","3">>, <<"C","h","a","r","l","i","e"," ","D","a","y">>, <<"P","r","o","j","e","c","t"," ","M","a","n","a","g","e","r">>, <<"$","1","0","5",",","0","0","0">>),
                  EmployeeRow(<<"E","0","0","4">>, <<"D","i","a","n","a"," ","P","r","i","n","c","e">>, <<"D","e","v","O","p","s"," ","E","n","g","i","n","e","e","r">>, <<"$","1","1","5",",","0","0","0">>)>>))

\* Test data a user can save in the data editor (handleSaveData): small and
\* negative values, a non-numeric string, rows that are null or a number,
\* values under nested objects, a key that holds an object and not an array.
EDGE_TEST_DATA ==
    Obj([k \in {s_company, s_monthly_sales, s_mixed, s_zeros, s_single, s_empty,
                s_employees, s_report, s_user} |->
        CASE k = s_company -> Str(<<>>)
          [] k = s_monthly_sales ->
                Arr(<<Rec3(s_month, Str(<<"J","a","n">>), s_revenue, Num(3), s_cost, Num(-1)),
                      Rec3(s_month, Str(<<"F","e","b">>), s_revenue, Str(<<"a","b","c">>), s_cost, Num(2)),
                      Null,
                      Num(5),
                      Rec2(s_month, Str(<<>>), s_revenue, Str(<<"1","2">>))>>)
          [] k = s_mixed ->
                Arr(<<Rec2(s_label, Str(<<"a">>), s_value, Num(3)),
                      Rec2(s_label, Str(<<"b">>), s_value, Num(-1)),
                      Rec2(s_label, Str(<<"c">>), s_value, Num(2))>>)
          [] k = s_zeros -> Arr(<<Rec1(s_value, Num(0)), Rec1(s_value, Num(0))>>)
          [] k = s_single -> Arr(<<Rec1(s_value, Num(7))>>)
          [] k = s_empty -> Arr(<<>>)
          [] k = s_employees -> Rec1(s_name, Str(<<"A","l","i","c","e">>))
          [] k = s_report ->
                Rec1(s_items, Arr(<<Rec2(s_value, Num(5), <<"a">>, Rec1(<<"b">>, Num(2))),
                                    Rec1(s_value, Num(15))>>))
          [] OTHER -> Rec1(s_name, Null)])

\* What JSON.parse of the test-data editor's text gives: the stock document
\* or the document of edge cases (a null root is a root of resolveData below).
DataContexts == {DEFAULT_TEST_DATA, EDGE_TEST_DATA}

\* Binding keys typed into the properties panel.
ElementKeys == {Str(s_monthly_sales), Str(s_mixed), Str(s_zeros), Str(s_single), Str(s_empty),
                Str(s_employees), Str(s_report_items), Str(s_user_name_first)}

\* Series data keys typed into the properties panel.
DataKeys == {s_value, s_ab, s_ba, s_a_b, s_month}

\* Category keys typed into the properties panel.
CategoryKeys == {s_month, s_fiscalYear, s_sales_month}

\* Column accessor keys typed into the properties panel.
AccessorKeys == {s_name, s_a_b, s_revenue}

NoStyle ==
    [chartType |-> Undefined, chartCategoryKey |-> Undefined, chartShowLegend |-> Undefined,
     chartShowTotal |-> Undefined, chartLegendPosition |-> Undefined, chartShowGrid |-> Undefined,
     chartShowDataLabels |-> Undefined, width |-> Undefined, height |-> Undefined,
     tableStriped |-> Undefined]

Series(id, dataKey, label, color) == [id |-> id, dataKey |-> dataKey, label |-> label, color |-> color]
Column(id, header, accessorKey) == [id |-> id, header |-> header, accessorKey |-> accessorKey]

\* What handleDrop builds for a chart dragged from the sidebar.
DroppedChart(ctype, w, h, title) ==
    [type |-> "chart", content |-> Str(title), key |-> Undefined,
     style |-> [NoStyle EXCEPT !.chartType = Str(ctype), !.width = Num(w), !.height = Num(h)],
     series |-> Undefined, columns |-> Undefined]

\* const defaultColumns of the sidebar
defaultColumns ==
    <<Column("c1", "Item Name", s_item), Column("c2", "Quantity", s_qty),
      Column("c3", "Unit Price", s_price)>>

\* What handleDrop builds for a table dragged from the sidebar.
DroppedTable(striped) ==
    [type |-> "table", content |-> Undefined, key |-> Undefined,
     style |-> [NoStyle EXCEPT !.width = Num(400), !.tableStriped = Bool(striped)],
     series |-> Undefined, columns |-> Arr(defaultColumns)]

\* What handleDrop builds for a placeholder.
DroppedPlaceholder ==
    [type |-> "placeholder", content |-> Undefined, key |-> Str(s_new_variable),
     style |-> NoStyle, series |-> Undefined, columns |-> Undefined]

\* A chart element of an imported template.
ImportedChart(ctype, categoryKey, key, series) ==
    [type |-> "chart", content |-> Undefined, key |-> key,
     style |-> [NoStyle EXCEPT !.chartType = ctype, !.chartCategoryKey = categoryKey],
     series |-> series, columns |-> Undefined]

\* A table element of an imported template.
ImportedTable(key, columns) ==
    [type |-> "table", content |-> Undefined, key |-> key, style |-> NoStyle,
     series |-> Undefined, columns |-> columns]

\* The element on the canvas at the start: dropped from the sidebar, or read
\* from an imported template (handleFileChange).
Templates ==
    { DroppedChart(s_bar, 300, 200, <<"Q","u","a","r","t","e","r","l","y"," ","S","a","l","e","s">>),
      DroppedChart(s_line, 300, 200, <<"G","r","o","w","t","h"," ","T","r","e","n","d">>),
      DroppedChart(s_pie, 250, 250, <<"D","i","s","t","r","i","b","u","t","i","o","n">>),
      DroppedTable(FALSE),
      DroppedTable(TRUE),
      DroppedPlaceholder,
      ImportedChart(Undefined, Str(s_month), Undefined, Undefined),
      ImportedChart(Undefined, Undefined, Str(s_monthly_sales),
                    Arr(<<Series("1", s_revenue, <<>>, "#6366f1")>>)),
      ImportedChart(Str(s_bar), Str(s_month), Str(s_monthly_sales),
                    Arr(<<Series("1", s_revenue, <<>>, "#6366f1"),
                          Series("2", s_cost, <<"C","o","s","t">>, "#a855f7")>>)),
      ImportedChart(Str(s_pie), Undefined, Str(s_zeros),
                    Arr(<<Series("1", s_value, s_Value, "#6366f1"),
                          Series("2", s_label, <<>>, "#a855f7")>>)),
      ImportedChart(Str(s_pie), Undefined, Str(s_mixed),
                    Arr(<<Series("1", s_value, s_Value, "#6366f1")>>)),
      ImportedChart(Str(s_bar), Undefined, Str(s_mixed),
                    Arr(<<Series("1", s_ab, <<>>, "#6366f1"), Series("2", s_ba, <<>>, "#a855f7")>>)),
      ImportedChart(Str(s_line), Str(s_sales_month), Str(s_report_items),
                    Arr(<<Series("1", s_a_b, <<>>, "#6366f1")>>)),
      ImportedChart(Str(s_bar), Undefined, Str(s_monthly_sales), Arr(<<>>)),
      ImportedTable(Str(s_employees), Arr(<<Column("1", "Name", s_name)>>)),
      ImportedTable(Str(s_monthly_sales), Undefined) }

(***************************************************************************)
(* Bounds                                                                  *)
(***************************************************************************)
\* Property edits applied to the template.
MaxEdits == 1
\* Series of a chart, columns of a table.
MaxSeries == 2
MaxColumns == 3

NewIds == <<"n1", "n2", "n3", "n4">>
\* generateUUID(): an id no item of the list has
FreshId(items) ==
    NewIds[CHOOSE i \in 1..Len(NewIds) :
              /\ \A j \in 1..Len(items) : items[j].id # NewIds[i]
              /\ \A h \in 1..(i - 1) : \E j \in 1..Len(items) : items[j].id = NewIds[h]]

\* Array.prototype.filter
RECURSIVE FilterOutId(_, _)
FilterOutId(items, id) ==
    IF items = <<>> THEN <<>>
    ELSE (IF Head(items).id = id THEN <<>> ELSE <<Head(items)>>) \o FilterOutId(Tail(items), id)

(***************************************************************************)
(* State machine: one element on the canvas, rendered after every change   *)
(***************************************************************************)
\* No call of resolveData has been made.
ResolveIdle == resolvePath = <<>> /\ resolveRoot = Undefined /\ resolved = Undefined

\* The recorded edit an undo or a redo follows, when there is none.
NoEdit == [name |-> "none", phase |-> "none", before |-> <<>>, after |-> <<>>]

\* The last operation of the editor, when there is none.
NoOp == [name |-> "none", before |-> <<>>, index |-> 0, length |-> 1, edit |-> NoEdit]

\* useState of App: elements [], history [[]], historyIndex 0, selectedId
\* null (the id "null"), clipboard null; no file has been exported.
EditorIdle ==
    /\ elements = <<>>
    /\ history = <<(<<>>)>>
    /\ historyIndex = 0
    /\ selectedId = "null"
    /\ clipboard = Null
    /\ exportFile = Null
    /\ lastOp = NoOp
    /\ operations = 0

\* No mouse button is down on a resize handle and no layout fix was requested.
PendingIdle == resizing = Null /\ layoutRequest = Null

Init ==
    /\ element \in Templates
    /\ previewMode = FALSE
    /\ dataContext = DEFAULT_TEST_DATA
    /\ rendered = getRenderContent(element, previewMode, dataContext)
    /\ edits = 0
    /\ ResolveIdle
    /\ EditorIdle
    /\ PendingIdle

\* handleUpdateElement(updated), then the re-render of the element
UpdateElement(updated) ==
    /\ ~previewMode
    /\ edits < MaxEdits
    /\ updated # element
    /\ element' = updated
    /\ edits' = edits + 1
    /\ rendered' = getRenderContent(updated, previewMode, dataContext)
    /\ UNCHANGED <<previewMode, dataContext, resolveVars, editorVars, pendingVars>>

\* checked={...} of the panel's checkboxes
checked(el, field) ==
    IF field \in {"chartShowLegend", "chartShowGrid"}
    THEN el.style[field] # Bool(FALSE)
    ELSE Truthy(OrElse(el.style[field], Bool(FALSE)))

\* handleChange('style', value, styleField): the values the panel's inputs send
StyleValues(field) ==
    CASE field = "chartType" -> {Str(s_bar), Str(s_line), Str(s_pie)}
      [] field = "chartCategoryKey" -> {Str(k) : k \in CategoryKeys}
      [] field = "chartLegendPosition" -> {Str(s_top), Str(s_bottom), Str(s_left), Str(s_right)}
      [] OTHER -> {Bool(~checked(element, field))}

handleChangeStyle ==
    \E field \in {"chartType", "chartCategoryKey", "chartLegendPosition", "chartShowLegend",
                  "chartShowTotal", "chartShowGrid", "chartShowDataLabels", "tableStriped"} :
      \E value \in StyleValues(field) :
        /\ (field = "tableStriped") = (element.type = "table")
        /\ UpdateElement([element EXCEPT !.style[field] = value])

\* handleChange('key', value) and handleChange('content', value)
handleChangeKey ==
    \E value \in ElementKeys : UpdateElement([element EXCEPT !.key = value])

handleChangeContent ==
    \E value \in {Str(<<>>), Str(<<"T">>)} :
        /\ element.type = "chart"
        /\ UpdateElement([element EXCEPT !.content = value])

\* onUpdate({ ...element, series: [...(element.series || []), newSeries] })
addSeries ==
    LET old == IF Truthy(element.series) THEN element.series.items ELSE <<>>
        newSeries == Series(FreshId(old), s_value, <<"N","e","w"," ","S","e","r","i","e","s">>, "#818cf8")
    IN /\ element.type = "chart"
       /\ Len(old) < MaxSeries
       /\ UpdateElement([element EXCEPT !.series = Arr(Append(old, newSeries))])

\* onUpdate({ ...element, series: element.series?.filter(s => s.id !== id) })
removeSeries ==
    /\ element.type = "chart"
    /\ Truthy(element.series)
    /\ \E n \in 1..Len(element.series.items) :
          UpdateElement([element EXCEPT
              !.series = Arr(FilterOutId(element.series.items, element.series.items[n].id))])

\* handleSeriesUpdate(seriesId, 'dataKey', value)
handleSeriesUpdate ==
    /\ element.type = "chart"
    /\ Truthy(element.series)
    /\ \E n \in 1..Len(element.series.items) : \E value \in DataKeys :
          UpdateElement([element EXCEPT !.series.items[n].dataKey = value])

\* onUpdate({ ...element, columns: [...(element.columns || []), newCol] })
addColumn ==
    LET old == IF Truthy(element.columns) THEN element.columns.items ELSE <<>>
        newCol == Column(FreshId(old), "New Column", s_key)
    IN /\ element.type = "table"
       /\ Len(old) < MaxColumns
       /\ UpdateElement([element EXCEPT !.columns = Arr(Append(old, newCol))])

\* onUpdate({ ...element, columns: element.columns?.filter(col => col.id !== id) })
removeColumn ==
    /\ element.type = "table"
    /\ Truthy(element.columns)
    /\ \E n \in 1..Len(element.columns.items) :
          UpdateElement([element EXCEPT
              !.columns = Arr(FilterOutId(element.columns.items, element.columns.items[n].id))])

\* handleColumnUpdate(colId, 'accessorKey', value)
handleColumnUpdate ==
    /\ element.type = "table"
    /\ Truthy(element.columns)
    /\ \E n \in 1..Len(element.columns.items) : \E value \in AccessorKeys :
          UpdateElement([element EXCEPT !.columns.items[n].accessorKey = value])

\* handleResize(id, width, height, x, y): the sizes a resize drag reports
ResizeSizes == {<<20, 20>>, <<120, 90>>}

handleResize ==
    \E wh \in ResizeSizes :
        UpdateElement([element EXCEPT !.style.width = Num(wh[1]), !.style.height = Num(wh[2])])

\* setPreviewMode(!previewMode)
togglePreview ==
    /\ previewMode' = ~previewMode
    /\ rendered' = getRenderContent(element, previewMode', dataContext)
    /\ UNCHANGED <<element, dataContext, edits, resolveVars, editorVars, pendingVars>>

\* handleSaveData: setDataContext(JSON.parse(testDataInput))
handleSaveData ==
    \E parsed \in DataContexts :
        /\ parsed # dataContext
        /\ dataContext' = parsed
        /\ rendered' = getRenderContent(element, previewMode, parsed)
        /\ UNCHANGED <<element, previewMode, edits, resolveVars, editorVars, pendingVars>>

Next ==
    \/ handleChangeStyle
    \/ handleChangeKey
    \/ handleChangeContent
    \/ addSeries
    \/ removeSeries
    \/ handleSeriesUpdate
    \/ addColumn
    \/ removeColumn
    \/ handleColumnUpdate
    \/ handleResize
    \/ togglePreview
    \/ handleSaveData

Spec == Init /\ [][Next]_vars

(***************************************************************************)
(* A chart on the canvas: the state machine above, started from the chart  *)
(* templates                                                               *)
(***************************************************************************)
ChartInit == Init /\ element.type = "chart"

ChartNext ==
    \/ handleChangeStyle
    \/ handleChangeKey
    \/ handleChangeContent
    \/ addSeries
    \/ removeSeries
    \/ handleSeriesUpdate
    \/ handleResize
    \/ togglePreview
    \/ handleSaveData

ChartSpec == ChartInit /\ [][ChartNext]_vars

(***************************************************************************)
(* resolveData alone, called with a path and a root                        *)
(***************************************************************************)
s_count == <<"c","o","u","n","t">>
s_missing == <<"m","i","s","s","i","n","g">>
s_first == <<"f","i","r","s","t">>

\* { user: { name: { first: 'Al' } }, name: '', count: 0, missing: null,
\*   items: [{ a: 1 }], 'a.b': 1 }
NestedRoot ==
    Obj((s_user :> Obj(s_name :> Obj(s_first :> Str(<<"A","l">>))))
        @@ (s_name :> Str(<<>>))
        @@ (s_count :> Num(0))
        @@ (s_missing :> Null)
        @@ (s_items :> Arr(<<Obj(<<"a">> :> Num(1))>>))
        @@ (s_a_b :> Num(1)))

\* The roots resolveData is called with: undefined, null, primitives, nested objects.
Roots ==
    { Undefined, Null, Num(0), Num(5), NaN, Str(<<>>), Str(<<"a","b">>), Bool(FALSE),
      Bool(TRUE), EmptyObj, NestedRoot, DEFAULT_TEST_DATA,
      Obj(s_name :> Str(<<"A","l">>)), Arr(<<Num(7)>>) }

Paths ==
    { <<>>, s_name, s_name \o <<".">> \o s_length, s_user_name_first,
      s_user_name_first \o <<".">> \o s_length, s_count \o <<".","x">>,
      s_missing, s_missing \o <<".","x">>, <<"x",".","y",".","z">>,
      s_items \o <<".","0",".","a">>, s_items \o <<".">> \o s_length, s_a_b,
      s_length, s_user \o <<".",".">> \o s_name, <<"0">>, s_monthly_sales }

ResolveInit ==
    /\ ResolveIdle
    /\ EditorIdle
    /\ PendingIdle
    /\ element = DroppedPlaceholder
    /\ previewMode = FALSE
    /\ dataContext = DEFAULT_TEST_DATA
    /\ rendered = getRenderContent(element, previewMode, dataContext)
    /\ edits = 0

\* resolveData(path, obj)
callResolveData ==
    \E p \in Paths : \E obj \in Roots :
        /\ resolvePath' = p
        /\ resolveRoot' = obj
        /\ resolved' = resolveData(p, obj)
        /\ UNCHANGED <<canvasVars, editorVars, pendingVars>>

ResolveNext == callResolveData

ResolveSpec == ResolveInit /\ [][ResolveNext]_vars

(***************************************************************************)
(* The editor: element list, history, selection, clipboard, export, import *)
(***************************************************************************)
\* Elements on the canvas.
MaxElements == 2
\* Operations of the editor in one run.
MaxOperations == 4

\* One more operation of the editor.
Counted == operations < MaxOperations /\ operations' = operations + 1

UUIDs == <<"u1", "u2", "u3", "u4", "u5", "u6">>

\* The ids of a list of elements.
IdsOf(els) == {els[i].id : i \in 1..Len(els)}

\* The ids the editor holds: on the canvas, in the history, in the
\* clipboard and in the exported file.
UsedIds ==
    IdsOf(elements)
    \cup UNION {IdsOf(history[h]) : h \in 1..Len(history)}
    \cup (IF clipboard = Null THEN {} ELSE {clipboard.id})
    \cup (IF exportFile = Null THEN {} ELSE IdsOf(exportFile.elements))

\* generateUUID() handing out an id it handed out before
generateUUIDRepeated(used) == UUIDs[1]

\* generateUUID(): an id that is not in use (Math.random() is taken to give
\* no id twice)
generateUUID(used) ==
    UUIDs[CHOOSE i \in 1..Len(UUIDs) :
             /\ UUIDs[i] \notin used
             /\ \A h \in 1..(i - 1) : UUIDs[h] \in used]

\* elements.find(el => el.id === id) !== undefined
HasId(els, id) == \E i \in 1..Len(els) : els[i].id = id

\* elements.find(el => el.id === id)
FindById(els, id) == els[CHOOSE i \in 1..Len(els) : els[i].id = id /\ \A j \in 1..(i - 1) : els[j].id # id]

\* elements.map(el => el.id === id ? f(el) : el), f given as a replacement per position
MapById(els, id, replaced) == [i \in 1..Len(els) |-> IF els[i].id = id THEN replaced[i] ELSE els[i]]

\* What a recorded operation leaves in lastOp.
Recorded(name, after) ==
    [name |-> name, before |-> elements, index |-> historyIndex, length |-> Len(history),
     edit |-> [name |-> name, phase |-> "done", before |-> elements, after |-> after]]

\* What an operation that is not recorded leaves in lastOp.
Plain(name) ==
    [name |-> name, before |-> elements, index |-> historyIndex, length |-> Len(history),
     edit |-> NoEdit]

\* The history appended to without the cut at historyIndex:
\* setHistory(prev => [...prev, newElements])
addToHistoryUncut(newElements) ==
    /\ history' = Append(history, newElements)
    /\ historyIndex' = historyIndex + 1

\* prev.slice(0, end): the first end items, all of them when there are fewer
slice(prev, end) == SubSeq(prev, 1, IF end > Len(prev) THEN Len(prev) ELSE end)

\* addToHistory(newElements)
addToHistory(newElements) ==
    /\ history' = Append(slice(history, historyIndex + 1), newElements)
    /\ historyIndex' = historyIndex + 1

\* The draggable items of the sidebar: label and what handleDrop builds.
SidebarItems ==
    { [label |-> "Bar Chart",
       element |-> DroppedChart(s_bar, 300, 200, <<"Q","u","a","r","t","e","r","l","y"," ","S","a","l","e","s">>)],
      [label |-> "Simple Table", element |-> DroppedTable(FALSE)] }

\* Where an element is dropped, snapped to the grid of 10.
DropPoints == {<<20, 20>>}

\* handleDrop(e)
handleDrop ==
    \E item \in SidebarItems : \E at \in DropPoints :
        LET newElement == [id |-> generateUUID(UsedIds), label |-> item.label,
                           x |-> at[1], y |-> at[2]] @@ item.element
            updatedElements == Append(elements, newElement)
        IN /\ ~previewMode
           /\ Len(elements) < MaxElements
           /\ elements' = updatedElements
           /\ addToHistory(updatedElements)
           /\ selectedId' = newElement.id
           /\ Counted
           /\ lastOp' = Recorded("drop", updatedElements)
           /\ UNCHANGED <<clipboard, exportFile, canvasVars, resolveVars, pendingVars>>

\* onSelect(element.id) of a click on an element; onClearSelection() of a
\* click beside the canvas
select ==
    \E id \in IdsOf(elements) \cup {"null"} :
        /\ id # selectedId
        /\ selectedId' = id
        /\ Counted
        /\ lastOp' = Plain("select")
        /\ UNCHANGED <<elements, history, historyIndex, clipboard, exportFile,
                       canvasVars, resolveVars, pendingVars>>

\* What the properties panel sends to onUpdate for the selected element:
\* addSeries for a chart, the striped checkbox for a table.
PanelUpdates(el) ==
    IF el.type = "chart"
    THEN LET old == IF Truthy(el.series) THEN el.series.items ELSE <<>> IN
         IF Len(old) < MaxSeries
         THEN {[el EXCEPT !.series =
                   Arr(Append(old, Series(FreshId(old), s_value,
                                          <<"N","e","w"," ","S","e","r","i","e","s">>, "#818cf8")))]}
         ELSE {}
    ELSE {[el EXCEPT !.style.tableStriped = Bool(~checked(el, "tableStriped"))]}

\* handleUpdateElement(updatedElement)
handleUpdateElement ==
    /\ HasId(elements, selectedId)
    /\ \E updatedElement \in PanelUpdates(FindById(elements, selectedId)) :
        LET newElements == MapById(elements, updatedElement.id,
                                   [i \in 1..Len(elements) |-> updatedElement])
        IN /\ elements' = newElements
           /\ addToHistory(newElements)
           /\ Counted
           /\ lastOp' = Recorded("edit", newElements)
           /\ UNCHANGED <<selectedId, clipboard, exportFile, canvasVars, resolveVars, pendingVars>>

\* Ctrl+C
copy ==
    /\ selectedId # "null"
    /\ HasId(elements, selectedId)
    /\ clipboard' = FindById(elements, selectedId)
    /\ Counted
    /\ lastOp' = Plain("copy")
    /\ UNCHANGED <<elements, history, historyIndex, selectedId, exportFile,
                   canvasVars, resolveVars, pendingVars>>

\* Ctrl+V
paste ==
    /\ clipboard # Null
    /\ Len(elements) < MaxElements
    /\ LET newId == generateUUID(UsedIds)
           offset == 20
           newElement == [clipboard EXCEPT !.id = newId,
                                           !.x = clipboard.x + offset,
                                           !.y = clipboard.y + offset,
                                           !.label = clipboard.label \o " (Copy)"]
           newElements == Append(elements, newElement)
       IN /\ elements' = newElements
          /\ addToHistory(newElements)
          /\ selectedId' = newId
          /\ Counted
          /\ lastOp' = Recorded("paste", newElements)
          /\ UNCHANGED <<clipboard, exportFile, canvasVars, resolveVars, pendingVars>>

\* elements.filter(el => el.id !== id)
RECURSIVE WithoutId(_, _)
WithoutId(els, id) ==
    IF els = <<>> THEN <<>>
    ELSE (IF Head(els).id = id THEN <<>> ELSE <<Head(els)>>) \o WithoutId(Tail(els), id)

\* Delete / Backspace
delete ==
    /\ selectedId # "null"
    /\ LET newElements == WithoutId(elements, selectedId)
       IN /\ elements' = newElements
          /\ addToHistory(newElements)
          /\ selectedId' = "null"
          /\ Counted
          /\ lastOp' = Recorded("delete", newElements)
          /\ UNCHANGED <<clipboard, exportFile, canvasVars, resolveVars, pendingVars>>

\* The arrow keys pressed.
ArrowKeys == {"ArrowRight", "ArrowUp"}

\* { ...el, x, y } of an arrow key
moved(el, key, shiftKey) ==
    LET step == IF shiftKey THEN 10 ELSE 1 IN
    [el EXCEPT !.x = IF key = "ArrowLeft" THEN el.x - step
                     ELSE IF key = "ArrowRight" THEN el.x + step ELSE el.x,
               !.y = IF key = "ArrowUp" THEN el.y - step
                     ELSE IF key = "ArrowDown" THEN el.y + step ELSE el.y]

\* ArrowUp / ArrowDown / ArrowLeft / ArrowRight
arrowMove ==
    \E key \in ArrowKeys : \E shiftKey \in BOOLEAN :
        /\ selectedId # "null"
        /\ LET updatedElements == MapById(elements, selectedId,
                                          [i \in 1..Len(elements) |-> moved(elements[i], key, shiftKey)])
           IN /\ elements' = updatedElements
              /\ addToHistory(updatedElements)
              /\ Counted
              /\ lastOp' = Recorded("move", updatedElements)
              /\ UNCHANGED <<selectedId, clipboard, exportFile, canvasVars, resolveVars, pendingVars>>

\* Where a drag ends, snapped.
DragPoints == {<<60, 40>>}

\* handleMouseDown on an element, mouse moves, mouse up: onSelect,
\* handleUpdatePosition with setElements(prev => ...), then the onDragEnd of
\* the render of the mouse down, whose handleDragEnd records the elements of
\* that render.
dragElement ==
    \E n \in 1..Len(elements) : \E to \in DragPoints :
        LET id == elements[n].id
            draggedElements == MapById(elements, id,
                                       [i \in 1..Len(elements) |->
                                           [elements[i] EXCEPT !.x = to[1], !.y = to[2]]])
        IN /\ ~previewMode
           /\ <<elements[n].x, elements[n].y>> # to
           /\ selectedId' = id
           /\ elements' = draggedElements
           /\ addToHistory(elements)
           /\ Counted
           /\ lastOp' = Recorded("drag", draggedElements)
           /\ UNCHANGED <<clipboard, exportFile, canvasVars, resolveVars, pendingVars>>

\* handleResizeStart on a handle of the selected element, mouse moves,
\* mouse up: handleResize with setElements(prev => ...), then the same
\* onDragEnd.
resizeElement ==
    \E wh \in ResizeSizes :
        /\ ~previewMode
        /\ HasId(elements, selectedId)
        /\ LET resizedElements == MapById(elements, selectedId,
                                          [i \in 1..Len(elements) |->
                                              [elements[i] EXCEPT !.style.width = Num(wh[1]),
                                                                  !.style.height = Num(wh[2])]])
           IN /\ elements' = resizedElements
              /\ addToHistory(elements)
              /\ Counted
              /\ lastOp' = Recorded("resize", resizedElements)
              /\ UNCHANGED <<selectedId, clipboard, exportFile, canvasVars, resolveVars, pendingVars>>

\* The edit an undo refers to: the recorded edit it follows at once.
Undone == IF lastOp.edit.phase = "done" THEN [lastOp.edit EXCEPT !.phase = "undone"] ELSE NoEdit

\* The edit a redo refers to: the recorded edit whose undo it follows at once.
Redone == IF lastOp.edit.phase = "undone" THEN [lastOp.edit EXCEPT !.phase = "redone"] ELSE NoEdit

\* undo()
undo ==
    /\ IF historyIndex > 0
       THEN /\ historyIndex' = historyIndex - 1
            /\ elements' = history[(historyIndex - 1) + 1]
            /\ lastOp' = [Plain("undo") EXCEPT !.edit = Undone]
       ELSE /\ UNCHANGED <<historyIndex, elements>>
            /\ lastOp' = Plain("undo")
    /\ Counted
    /\ UNCHANGED <<history, selectedId, clipboard, exportFile, canvasVars, resolveVars, pendingVars>>

\* redo()
redo ==
    /\ IF historyIndex < Len(history) - 1
       THEN /\ historyIndex' = historyIndex + 1
            /\ elements' = history[(historyIndex + 1) + 1]
            /\ lastOp' = [Plain("redo") EXCEPT !.edit = Redone]
       ELSE /\ UNCHANGED <<historyIndex, elements>>
            /\ lastOp' = Plain("redo")
    /\ Counted
    /\ UNCHANGED <<history, selectedId, clipboard, exportFile, canvasVars, resolveVars, pendingVars>>

\* JSON.parse(JSON.stringify(v)) of a value: NaN and the infinities become
\* null, an undefined item of an array becomes null, an undefined property
\* is left out (and reads as undefined).
RECURSIVE jsonValue(_)
jsonValue(v) ==
    CASE v.t = "number" -> IF isFinite(v) THEN v ELSE Null
      [] v.t = "object" -> Obj([k \in DOMAIN v.f |-> jsonValue(v.f[k])])
      [] v.t = "array" ->
            Arr([i \in 1..Len(v.items) |->
                    IF v.items[i] = Undefined THEN Null ELSE jsonValue(v.items[i])])
      [] OTHER -> v

\* The style object after JSON.stringify and JSON.parse.
jsonStyle(style) == [f \in DOMAIN style |-> jsonValue(style[f])]

\* handleExport('JSON') of src/unnamed/part_005: the elements of the template
exportedElements(els) ==
    [i \in 1..Len(els) |->
        [id |-> els[i].id, type |-> els[i].type,
         position |-> [x |-> els[i].x, y |-> els[i].y],
         properties |-> [content |-> jsonValue(els[i].content), key |-> jsonValue(els[i].key),
                         style |-> jsonStyle(els[i].style), columns |-> els[i].columns,
                         series |-> els[i].series]]]

\* handleExport('JSON') of src/App.tsx: properties without the series
exportedElementsApp(els) ==
    [i \in 1..Len(els) |->
        [id |-> els[i].id, type |-> els[i].type,
         position |-> [x |-> els[i].x, y |-> els[i].y],
         properties |-> [content |-> jsonValue(els[i].content), key |-> jsonValue(els[i].key),
                         style |-> jsonStyle(els[i].style), columns |-> els[i].columns]]]

\* el.type.charAt(0).toUpperCase() + el.type.slice(1)
\*   + (el.type === 'placeholder' ? ' Variable' : ' Block')
importedLabel(type) ==
    CASE type = "chart" -> "Chart Block"
      [] type = "table" -> "Table Block"
      [] type = "placeholder" -> "Placeholder Variable"
      [] OTHER -> type \o " Block"

\* el.properties?.series
propertyOrUndefined(properties, name) ==
    IF name \in DOMAIN properties THEN properties[name] ELSE Undefined

\* json.elements.map(...) of handleFileChange in src/unnamed/part_005; the
\* position and the style are always in the file, so x || 0 is x and
\* style || {} is the style
importedElements(json) ==
    [i \in 1..Len(json) |->
        [id |-> json[i].id, type |-> json[i].type,
         x |-> json[i].position.x, y |-> json[i].position.y,
         label |-> importedLabel(json[i].type),
         content |-> json[i].properties.content, key |-> json[i].properties.key,
         style |-> json[i].properties.style,
         columns |-> json[i].properties.columns,
         series |-> propertyOrUndefined(json[i].properties, "series")]]

\* json.elements.map(...) of handleFileChange in src/App.tsx: no series
importedElementsApp(json) ==
    [i \in 1..Len(json) |->
        [id |-> json[i].id, type |-> json[i].type,
         x |-> json[i].position.x, y |-> json[i].position.y,
         label |-> importedLabel(json[i].type),
         content |-> json[i].properties.content, key |-> json[i].properties.key,
         style |-> json[i].properties.style,
         columns |-> json[i].properties.columns,
         series |-> Undefined]]

\* The file written from the exported JSON; source keeps the elements it
\* was exported from.
WriteFile(json) ==
    /\ exportFile' = [elements |-> json, source |-> elements]
    /\ Counted
    /\ lastOp' = Plain("export")
    /\ UNCHANGED <<elements, history, historyIndex, selectedId, clipboard,
                   canvasVars, resolveVars, pendingVars>>

\* handleExport('JSON'), src/unnamed/part_005
handleExport == WriteFile(exportedElements(elements))

\* handleExport('JSON'), src/App.tsx
handleExportApp == WriteFile(exportedElementsApp(elements))

\* setElements(importedElements); addToHistory(importedElements); setSelectedId(null)
ReadFile(imported) ==
    /\ elements' = imported
    /\ addToHistory(imported)
    /\ selectedId' = "null"
    /\ Counted
    /\ lastOp' = Recorded("import", imported)
    /\ UNCHANGED <<clipboard, exportFile, canvasVars, resolveVars, pendingVars>>

\* handleFileChange, src/unnamed/part_005
handleFileChange == exportFile # Null /\ ReadFile(importedElements(exportFile.elements))

\* handleFileChange, src/App.tsx
handleFileChangeApp == exportFile # Null /\ ReadFile(importedElementsApp(exportFile.elements))

EditorInit ==
    /\ EditorIdle
    /\ ResolveIdle
    /\ PendingIdle
    /\ element = DroppedPlaceholder
    /\ previewMode = FALSE
    /\ dataContext = DEFAULT_TEST_DATA
    /\ rendered = getRenderContent(element, previewMode, dataContext)
    /\ edits = 0

EditorNext ==
    \/ handleDrop
    \/ select
    \/ handleUpdateElement
    \/ copy
    \/ paste
    \/ delete
    \/ arrowMove
    \/ dragElement
    \/ resizeElement
    \/ undo
    \/ redo
    \/ handleExport
    \/ handleExportApp
    \/ handleFileChange
    \/ handleFileChangeApp

EditorSpec == EditorInit /\ [][EditorNext]_vars

(***************************************************************************)
(* The resize gesture: mouse down on a handle, mouse moves, mouse up        *)
(***************************************************************************)
\* addToHistory of an earlier render, whose closure holds the historyIndex
\* of that render: prev.slice(0, historyIndex + 1) with the captured index,
\* setHistoryIndex(prev => prev + 1) on the current one.
addToHistoryOf(render, newElements) ==
    /\ history' = Append(slice(history, render.historyIndex + 1), newElements)
    /\ historyIndex' = historyIndex + 1

\* What a handler closes over: the elements and the historyIndex of the
\* render in which it was created.
Render == [elements |-> elements, historyIndex |-> historyIndex]

\* The eight handles of a selected element.
Directions == {<<"n","w">>, <<"n","e">>, <<"s","w">>, <<"s","e">>,
               <<"n">>, <<"s">>, <<"w">>, <<"e">>}

\* clientX - startX and clientY - startY of a mouse move.
MouseDeltas == {<<30, -30>>, <<-30, 400>>, <<400, 30>>, <<-400, -400>>}

\* minWidth and minHeight of containerStyle (0 for 'auto').
minWidth(type) == IF type = "table" THEN 300 ELSE IF type = "chart" THEN 150 ELSE 0
minHeight(type) == IF type = "chart" THEN 100 ELSE 0

\* The widths and heights the browser may lay an element of automatic size out with.
AutoSizes == {24, 180}

\* el.offsetWidth and el.offsetHeight: the style's size, the minimum of the
\* type at least, or what the layout gives.
offsetWidths(el) ==
    IF Truthy(el.style.width)
    THEN {IF el.style.width.n < minWidth(el.type) THEN minWidth(el.type) ELSE el.style.width.n}
    ELSE {IF a < minWidth(el.type) THEN minWidth(el.type) ELSE a : a \in AutoSizes}
offsetHeights(el) ==
    IF Truthy(el.style.height)
    THEN {IF el.style.height.n < minHeight(el.type) THEN minHeight(el.type) ELSE el.style.height.n}
    ELSE {IF a < minHeight(el.type) THEN minHeight(el.type) ELSE a : a \in AutoSizes}

\* The mouse move that clamps the size at 20 and leaves x and y as computed
\* before the clamp.
resizeMoveUnanchored(direction, start, deltaX, deltaY) ==
    LET east == includes(direction, <<"e">>)
        west == ~east /\ includes(direction, <<"w">>)
        south == includes(direction, <<"s">>)
        north == ~south /\ includes(direction, <<"n">>)
        newWidth == IF east THEN start.width + deltaX
                    ELSE IF west THEN start.width - deltaX ELSE start.width
        newHeight == IF south THEN start.height + deltaY
                     ELSE IF north THEN start.height - deltaY ELSE start.height
    IN [width |-> IF newWidth < 20 THEN 20 ELSE newWidth,
        height |-> IF newHeight < 20 THEN 20 ELSE newHeight,
        x |-> IF west THEN start.left + deltaX ELSE start.left,
        y |-> IF north THEN start.top + deltaY ELSE start.top]

\* handleMouseMove of handleResizeStart: the arguments of onResize
resizeMove(direction, start, deltaX, deltaY) ==
    LET east == includes(direction, <<"e">>)
        west == ~east /\ includes(direction, <<"w">>)
        south == includes(direction, <<"s">>)
        north == ~south /\ includes(direction, <<"n">>)
        newWidth == IF east THEN start.width + deltaX
                    ELSE IF west THEN start.width - deltaX ELSE start.width
        newHeight == IF south THEN start.height + deltaY
                     ELSE IF north THEN start.height - deltaY ELSE start.height
        newX == IF west THEN start.left + deltaX ELSE start.left
        newY == IF north THEN start.top + deltaY ELSE start.top
    IN [width |-> IF newWidth < 20 THEN 20 ELSE newWidth,
        height |-> IF newHeight < 20 THEN 20 ELSE newHeight,
        x |-> IF newWidth < 20 /\ includes(direction, <<"w">>)
              THEN start.left + (start.width - 20) ELSE newX,
        y |-> IF newHeight < 20 /\ includes(direction, <<"n">>)
              THEN start.top + (start.height - 20) ELSE newY]

\* { ...el, x, y, style: { ...el.style, width, height } } of handleResize
resized(el, r) ==
    [el EXCEPT !.x = r.x, !.y = r.y, !.style.width = Num(r.width), !.style.height = Num(r.height)]

\* handleResizeStart(e, direction) on a handle of the selected element
handleResizeStart ==
    \E direction \in Directions :
        /\ ~previewMode
        /\ resizing = Null
        /\ HasId(elements, selectedId)
        /\ LET el == FindById(elements, selectedId) IN
           \E startWidth \in offsetWidths(el) : \E startHeight \in offsetHeights(el) :
              resizing' = [id |-> el.id, direction |-> direction,
                           start |-> [width |-> startWidth, height |-> startHeight,
                                      left |-> el.x, top |-> el.y],
                           hasResized |-> FALSE, reported |-> Null, render |-> Render]
        /\ Counted
        /\ lastOp' = Plain("resizeStart")
        /\ UNCHANGED <<elements, history, historyIndex, selectedId, clipboard, exportFile,
                       layoutRequest, canvasVars, resolveVars>>

\* handleMouseMove of the gesture: onResize(element.id, newWidth, newHeight,
\* newX, newY), i.e. handleResize with setElements(prev => ...)
handleResizeMove ==
    \E delta \in MouseDeltas :
        /\ resizing # Null
        /\ LET r == resizeMove(resizing.direction, resizing.start, delta[1], delta[2]) IN
           /\ resizing' = [resizing EXCEPT !.hasResized = TRUE, !.reported = r]
           /\ elements' = MapById(elements, resizing.id,
                                  [i \in 1..Len(elements) |-> resized(elements[i], r)])
        /\ Counted
        /\ lastOp' = Plain("resizeMove")
        /\ UNCHANGED <<history, historyIndex, selectedId, clipboard, exportFile,
                       layoutRequest, canvasVars, resolveVars>>

\* handleMouseUp of the gesture: if (hasResized && onDragEnd) onDragEnd(),
\* the handleDragEnd of the render of the mouse down
handleResizeEnd ==
    /\ resizing # Null
    /\ IF resizing.hasResized
       THEN addToHistoryOf(resizing.render, resizing.render.elements)
       ELSE UNCHANGED <<history, historyIndex>>
    /\ resizing' = Null
    /\ Counted
    /\ lastOp' = Plain("resizeEnd")
    /\ UNCHANGED <<elements, selectedId, clipboard, exportFile, layoutRequest,
                   canvasVars, resolveVars>>

\* An element is dropped while no mouse button is held on a handle.
dropBeforeResize == resizing = Null /\ handleDrop

ResizeNext ==
    \/ dropBeforeResize
    \/ handleResizeStart
    \/ handleResizeMove
    \/ handleResizeEnd

ResizeSpec == EditorInit /\ [][ResizeNext]_vars

(***************************************************************************)
(* handleAiLayoutFix: the request, and the response after the await        *)
(***************************************************************************)
\* What the model answers for the elements it was sent: a JSON array of
\* { id, x, y }, for every element or for the first one only.
Responses(sent) ==
    { [i \in 1..Len(sent) |-> [id |-> sent[i].id, x |-> 40, y |-> 40 + 100 * (i - 1)]],
      <<[id |-> sent[1].id, x |-> 40, y |-> 40]>> }

\* fixedPositions.find(f => f.id === el.id) !== undefined
HasFix(fixedPositions, id) == \E k \in 1..Len(fixedPositions) : fixedPositions[k].id = id

\* fixedPositions.find(f => f.id === el.id)
FixOf(fixedPositions, id) ==
    fixedPositions[CHOOSE k \in 1..Len(fixedPositions) :
                      /\ fixedPositions[k].id = id
                      /\ \A j \in 1..(k - 1) : fixedPositions[j].id # id]

\* els.map(el => fix ? { ...el, x: fix.x, y: fix.y } : el)
positioned(els, fixedPositions) ==
    [i \in 1..Len(els) |->
        IF HasFix(fixedPositions, els[i].id)
        THEN [els[i] EXCEPT !.x = FixOf(fixedPositions, els[i].id).x,
                            !.y = FixOf(fixedPositions, els[i].id).y]
        ELSE els[i]]

\* handleAiLayoutFix up to the await: the button is enabled, the prompt is
\* sent with the elements of this render
requestLayoutFix ==
    /\ elements # <<>>
    /\ IF layoutRequest = Null THEN TRUE ELSE layoutRequest.status = "applied"
    /\ layoutRequest' = [status |-> "pending", render |-> Render, response |-> <<>>]
    /\ Counted
    /\ lastOp' = Plain("layoutRequest")
    /\ UNCHANGED <<elements, history, historyIndex, selectedId, clipboard, exportFile,
                   resizing, canvasVars, resolveVars>>

\* handleAiLayoutFix after the await: newElements = elements.map(...) over
\* the elements of the render of the click, setElements(newElements),
\* addToHistory(newElements) with the closure of that render
applyLayoutFix ==
    /\ layoutRequest # Null
    /\ layoutRequest.status = "pending"
    /\ \E fixedPositions \in Responses(layoutRequest.render.elements) :
          LET newElements == positioned(layoutRequest.render.elements, fixedPositions)
          IN /\ elements' = newElements
             /\ addToHistoryOf(layoutRequest.render, newElements)
             /\ layoutRequest' = [layoutRequest EXCEPT !.status = "applied",
                                                       !.response = fixedPositions]
    /\ Counted
    /\ lastOp' = Plain("layoutFix")
    /\ UNCHANGED <<selectedId, clipboard, exportFile, resizing, canvasVars, resolveVars>>

LayoutNext ==
    \/ handleDrop
    \/ handleUpdateElement
    \/ delete
    \/ arrowMove
    \/ requestLayoutFix
    \/ applyLayoutFix

LayoutSpec == EditorInit /\ [][LayoutNext]_vars

(***************************************************************************)
(* Properties of the rendered element                                      *)
(***************************************************************************)
\* The chart is drawn from the array the key resolves to.
BoundChart ==
    /\ previewMode
    /\ element.type = "chart"
    /\ Truthy(element.key)
    /\ rendered.kind = "chart"

BoundBarChart == BoundChart /\ chartType(element) = s_bar

\* The chart is drawn from synthetic rows.
EditChart == ~previewMode /\ element.type = "chart" /\ rendered.kind = "chart"

\* The numbers the series' data keys resolve to, row by row.
RenderedValues ==
    LET series == rendered.calc.series
        data == rendered.calc.data
    IN [n \in 1..(Len(data) * Len(series)) |->
           barValue(resolveData(series[((n - 1) % Len(series)) + 1].dataKey,
                                data[((n - 1) \div Len(series)) + 1]))]

\* One rectangle per (row, series), rows in array order, series in definition order.
OneRectPerRowAndSeries ==
    LET nS == Len(rendered.calc.series) IN
    /\ rendered.calc.data = resolveData(element.key.s, dataContext).items
    /\ Len(rendered.bars) = Len(rendered.calc.data) * nS
    /\ \A n \in 1..Len(rendered.bars) :
          /\ rendered.bars[n].row = (n - 1) \div nS
          /\ rendered.bars[n].series = (n - 1) % nS

\* C1 (amended): for a bar chart in preview mode whose key resolves to an
\* array there is one rectangle per (row, series) pair, rows in array order
\* and series in definition order, and each height is
\* max(0, (value / divisor) * drawHeight), where domainMax is 1.1 times
\* Math.max of 10 and all the values, and divisor is domainMax, or 1 when
\* domainMax is NaN.
C1_BarHeights ==
    BoundBarChart =>
        LET vals == RenderedValues
            domainMax == NumMul(MathMax(vals, Num(10)), Fin(11, 10))
            divisor == IF isNaN(domainMax) THEN Num(1) ELSE domainMax
        IN /\ OneRectPerRowAndSeries
           /\ \A n \in 1..Len(rendered.bars) :
                 rendered.bars[n].height =
                     MathMax2(Num(0), NumMul(NumDiv(vals[n], divisor), rendered.calc.drawHeight))

\* C1, reached: a bound bar chart over the rows 3, -1, 2 has bars of height
\* 3/11 and 2/11 of the drawing height and a bar of height 0.
C1_Witness ==
    /\ BoundBarChart
    /\ RenderedValues = <<Num(3), Num(-1), Num(2)>>
    /\ NumLt(Num(0), rendered.calc.drawHeight)
    /\ rendered.bars[1].height = NumMul(Fin(3, 11), rendered.calc.drawHeight)
    /\ rendered.bars[2].height = Num(0)
    /\ rendered.bars[3].height = NumMul(Fin(2, 11), rendered.calc.drawHeight)

\* C1 as stated: each height is (value / domainMax) * drawHeight with
\* domainMax 1.1 times the largest value.
C1_AsStated ==
    (BoundBarChart /\ Len(RenderedValues) > 0) =>
        LET vals == RenderedValues
            domainMax == NumMul(MathMax(vals, vals[1]), Fin(11, 10))
        IN /\ OneRectPerRowAndSeries
           /\ \A n \in 1..Len(rendered.bars) :
                 rendered.bars[n].height =
                     NumMul(NumDiv(vals[n], domainMax), rendered.calc.drawHeight)

\* A value that is NaN counts as 0.
NaNAsZero(v) == IF isNaN(v) THEN Num(0) ELSE v

\* C2: the domain maximum of every chart is 1.1 times the maximum of 10 and
\* the resolved values, a missing, non-numeric or NaN value counting as 0, so
\* it is a finite number that is at least 11.
C2_DomainMaxFinite ==
    rendered.kind = "chart" =>
        LET vals == RenderedValues
            zeroed == [n \in 1..Len(vals) |-> NaNAsZero(vals[n])]
        IN /\ rendered.calc.maxValue = NumMul(MathMax(zeroed, Num(10)), Fin(11, 10))
           /\ isFinite(rendered.calc.maxValue)
           /\ NumLe(Num(11), rendered.calc.maxValue)

\* The sum of the angles of the drawn wedges, in turns.
DrawnAngle ==
    SumSeq([n \in 1..Len(rendered.pie.slices) |-> rendered.pie.slices[n].sliceAngle])

\* C3: the angles of the drawn wedges of a pie whose total is positive sum to
\* one full turn (2 pi), also when some rows hold negative values.
C3_FullTurn ==
    (rendered.kind = "chart" /\ chartType(element) = s_pie /\ NumLt(Num(0), rendered.pie.total))
        => DrawnAngle = Num(1)

\* The category sequence a key containing "month" stands for.
MonthLabels == << <<"J","a","n">>, <<"F","e","b">>, <<"M","a","r">>, <<"A","p","r">>, <<"M","a","y">> >>

\* C4: in edit mode, when the category key contains "month", resolving the
\* category key on the synthetic rows gives Jan, Feb, Mar, Apr, May in that
\* order, whatever the series and the key.
C4_MonthLabels ==
    (EditChart /\ includes(chartCategoryKey(element), s_month)) =>
        /\ Len(rendered.calc.data) = 5
        /\ \A i \in 1..5 :
              resolveData(chartCategoryKey(element), rendered.calc.data[i]) = Str(MonthLabels[i])
        /\ chartType(element) # s_pie =>
              \A i \in 1..5 : rendered.xLabels[i].text = MonthLabels[i]
        /\ (chartType(element) = s_pie /\ showLegend(element)) =>
              \A i \in 1..5 : rendered.legend.items[i].label = MonthLabels[i]

\* C5: an unbound table with columns configured has three body rows, and
\* the text of every cell is its column's accessor key in brackets.
C5_BracketedKeys ==
    (~previewMode /\ element.type = "table" /\ Truthy(element.columns)) =>
        /\ rendered.kind = "table"
        /\ Len(rendered.rows) = 3
        /\ \A r \in 1..Len(rendered.rows) : \A c \in 1..Len(element.columns.items) :
              rendered.rows[r].cells[c] = <<"[">> \o element.columns.items[c].accessorKey \o <<"]">>

\* The key is set, the element is previewed, and the key is no array in the data.
KeyIsNoArray ==
    /\ previewMode
    /\ Truthy(element.key)
    /\ ~isArray(resolveData(element.key.s, dataContext))

\* C6: in preview mode, when the key of an element resolves to something
\* that is no array, a chart is the error panel naming the key and nothing
\* else, a table is its three mock rows, unbound, and nothing is thrown.
C6_NotAnArray ==
    KeyIsNoArray =>
        /\ rendered.kind # "exception"
        /\ element.type = "chart" => rendered = [kind |-> "error", key |-> element.key.s]
        /\ element.type = "table" =>
              /\ rendered.kind = "table"
              /\ ~rendered.isBoundData
              /\ Len(rendered.rows) = 3

\* C6, reached: a previewed chart whose key holds an object shows the error panel.
C6_Witness ==
    /\ KeyIsNoArray
    /\ element.type = "chart"
    /\ resolveData(element.key.s, dataContext).t = "object"
    /\ rendered.kind = "error"

C8_EditModeIgnoresData ==
    ~previewMode => rendered = getRenderContent(element, FALSE, Null)

\* C8, reached: an element in edit mode whose key is an array of the saved
\* data, which it would draw in preview mode.
C8_Witness ==
    /\ ~previewMode
    /\ Truthy(element.key)
    /\ dataContext = EDGE_TEST_DATA
    /\ isArray(resolveData(element.key.s, dataContext))
    /\ rendered = getRenderContent(element, FALSE, DEFAULT_TEST_DATA)

\* The data keys of the series of a rendered chart.
RenderedDataKeys(r) == {r.calc.series[si].dataKey : si \in 1..Len(r.calc.series)}

\* C9: between two renders in edit mode the synthetic value of a row index
\* and a data key is the same, whatever else of the element or of the data
\* context changed, and a render of the same element is the same render.
C9_Deterministic ==
    [][(EditChart /\ EditChart') =>
          /\ element' = element => rendered' = rendered
          /\ Len(rendered'.calc.data) = Len(rendered.calc.data)
          /\ \A i \in 1..Len(rendered.calc.data) :
                \A k \in RenderedDataKeys(rendered) \cap RenderedDataKeys(rendered') :
                    rendered'.calc.data[i].f[k] = rendered.calc.data[i].f[k]
          /\ chartCategoryKey(element') = chartCategoryKey(element) =>
                \A i \in 1..Len(rendered.calc.data) :
                    (chartCategoryKey(element) \notin
                        RenderedDataKeys(rendered) \cup RenderedDataKeys(rendered')) =>
                    rendered'.calc.data[i].f[chartCategoryKey(element)]
                        = rendered.calc.data[i].f[chartCategoryKey(element)]
    ]_vars

\* C9, reached: a chart re-rendered in edit mode after an edit and under
\* other data than at the start, with two series.
C9_Witness ==
    /\ EditChart
    /\ edits > 0
    /\ dataContext # DEFAULT_TEST_DATA
    /\ Len(rendered.calc.series) = 2
    /\ Len(rendered.calc.data) = 5

\* The synthetic values of data key k, by row.
SyntheticSequence(k) == [i \in 1..Len(rendered.calc.data) |-> rendered.calc.data[i].f[k]]

\* C10: in edit mode two series whose data keys differ have different
\* synthetic sequences, and their seeds differ.
C10_KeysSeparated ==
    EditChart =>
        \A k1, k2 \in RenderedDataKeys(rendered) :
            k1 # k2 => /\ dummySeed(k1) # dummySeed(k2)
                       /\ SyntheticSequence(k1) # SyntheticSequence(k2)

\* The element with its series list cut to the first series.
FirstSeriesOnly(el) == [el EXCEPT !.series = Arr(<<el.series.items[1]>>)]

\* C12: a pie chart depends on the first series only: what is rendered of
\* the pie (wedges, donut, total, legend) is what is rendered for the same
\* element with the series after the first removed, in edit and in preview mode.
C12_PieFirstSeriesOnly ==
    (/\ rendered.kind = "chart"
     /\ chartType(element) = s_pie
     /\ Truthy(element.series)
     /\ Len(element.series.items) >= 2) =>
        LET first == getRenderContent(FirstSeriesOnly(element), previewMode, dataContext) IN
        /\ first.kind = "chart"
        /\ rendered.pie = first.pie
        /\ rendered.legend = first.legend

\* The total of the first series over the rows of the rendered chart.
FirstSeriesTotal ==
    LET series == rendered.calc.series
        data == rendered.calc.data
        key == IF series = <<>> THEN <<>> ELSE series[1].dataKey
    IN SumSeq([i \in 1..Len(data) |-> barValue(resolveData(key, data[i]))])

\* C13: when the first-series total of a pie chart is 0, the "No Data"
\* label is rendered, and no wedge and no donut overlay.
C13_NoData ==
    (rendered.kind = "chart" /\ chartType(element) = s_pie /\ FirstSeriesTotal = Num(0)) =>
        /\ rendered.pie.noData
        /\ rendered.pie.slices = <<>>
        /\ ~rendered.pie.donut

\* C13, reached: a previewed pie over the rows [{value: 0}, {value: 0}],
\* with the total shown, renders "No Data".
C13_Witness ==
    /\ BoundChart
    /\ chartType(element) = s_pie
    /\ rendered.calc.data = <<Rec1(s_value, Num(0)), Rec1(s_value, Num(0))>>
    /\ rendered.calc.series[1].dataKey = s_value
    /\ rendered.pie.noData

\* The bars whose value is a number (not NaN), in ascending order of value.
BarsByValue(vals) ==
    SortSeq(SelectSeq([n \in 1..Len(vals) |-> n], LAMBDA n : ~isNaN(vals[n])),
            LAMBDA a, b : NumLt(vals[a], vals[b]))

\* C14: within one render the heights of the bars are monotonic in the
\* values (v1 <= v2 gives height1 <= height2), and no height is negative.
\* The bars are taken in ascending order of value: each height is at most
\* the next one, and equal values have equal heights.
C14_MonotonicHeights ==
    (rendered.kind = "chart" /\ chartType(element) = s_bar) =>
        LET vals == RenderedValues
            order == BarsByValue(vals)
        IN /\ \A n \in 1..Len(rendered.bars) : ~NumLt(rendered.bars[n].height, Num(0))
           /\ \A k \in 1..(Len(order) - 1) :
                 /\ NumLe(vals[order[k]], vals[order[k + 1]])
                 /\ NumLe(rendered.bars[order[k]].height, rendered.bars[order[k + 1]].height)
                 /\ vals[order[k]] = vals[order[k + 1]] =>
                        rendered.bars[order[k]].height = rendered.bars[order[k + 1]].height

\* C14, reached: a bound bar chart with a negative value, drawn with height
\* 0, and two positive values in strict order of value and of height.
C14_Witness ==
    /\ BoundBarChart
    /\ \E n \in 1..Len(rendered.bars) :
          NumLt(RenderedValues[n], Num(0)) /\ rendered.bars[n].height = Num(0)
    /\ \E n, m \in 1..Len(rendered.bars) :
          /\ NumLt(Num(0), RenderedValues[n])
          /\ NumLt(RenderedValues[n], RenderedValues[m])
          /\ NumLt(rendered.bars[n].height, rendered.bars[m].height)

\* C15: a table whose columns are undefined or an empty list is rendered
\* with the two default columns Col 1 and Col 2.
C15_DefaultColumns ==
    (element.type = "table" /\ (~Truthy(element.columns) \/ element.columns.items = <<>>)) =>
        /\ rendered.kind = "table"
        /\ rendered.headers = <<"Col 1", "Col 2">>
        /\ \A r \in 1..Len(rendered.rows) : Len(rendered.rows[r].cells) = 2

\* What the data key of each series resolves to on each row: row i
\* (1-based), series si (1-based).
RawValues ==
    [i \in 1..Len(rendered.calc.data) |->
        [si \in 1..Len(rendered.calc.series) |->
            resolveData(rendered.calc.series[si].dataKey, rendered.calc.data[i])]]

\* What the category key resolves to on each row.
RawCategories ==
    [i \in 1..Len(rendered.calc.data) |->
        resolveData(chartCategoryKey(element), rendered.calc.data[i])]

\* The values, row by row, with an unresolved one taken as 0.
ValuesMissingAsZero(raw) ==
    LET nS == Len(rendered.calc.series) IN
    [n \in 1..(Len(rendered.calc.data) * nS) |->
        LET v == raw[((n - 1) \div nS) + 1][((n - 1) % nS) + 1] IN
        IF v = Undefined THEN Num(0) ELSE barValue(v)]

\* An unresolved data key is drawn as the value 0, and the scale is the
\* scale of the values with 0 in its place; an unresolved category key gives
\* the X-axis label ''.
MissingAbsorbed(raw, category) ==
    LET nS == Len(rendered.calc.series)
        nR == Len(rendered.calc.data)
        ctype == chartType(element)
    IN /\ rendered.calc.maxValue = NumMul(MathMax(ValuesMissingAsZero(raw), Num(10)), Fin(11, 10))
       /\ ctype = s_bar =>
             /\ Len(rendered.bars) = nR * nS
             /\ \A i \in 1..nR : \A si \in 1..nS :
                   raw[i][si] = Undefined => rendered.bars[(i - 1) * nS + si].height = Num(0)
       /\ ctype = s_line =>
             \A i \in 1..nR : \A si \in 1..nS :
                 raw[i][si] = Undefined =>
                     rendered.lines[si].points[i].y = rendered.calc.drawHeight
       /\ (ctype = s_pie /\ nS > 0 /\ ~rendered.pie.noData) =>
             \A i \in 1..nR : raw[i][1] = Undefined => ~rendered.pie.slices[i].drawn
       /\ ctype # s_pie =>
             /\ Len(rendered.xLabels) = nR
             /\ \A i \in 1..nR : category[i] = Undefined => rendered.xLabels[i].text = <<>>

C20_FiniteWidths ==
    rendered.kind = "chart" =>
        LET nR == Len(rendered.calc.data)
            nS == Len(rendered.calc.series)
            groupWidth == NumDiv(rendered.calc.drawWidth, Num(IF nR = 0 THEN 1 ELSE nR))
        IN /\ rendered.calc.barGroupWidth = groupWidth
           /\ rendered.calc.barWidth =
                  NumDiv(NumMul(groupWidth, Fin(7, 10)), Num(IF nS = 0 THEN 1 ELSE nS))
           /\ isFinite(rendered.calc.barGroupWidth)
           /\ isFinite(rendered.calc.barWidth)

\* The value reached from obj by following the first k segments as literal
\* property names.
RECURSIVE Follow(_, _, _)
Follow(segs, k, obj) == IF k = 0 THEN obj ELSE Prop(Follow(segs, k - 1, obj), segs[k])

\* C11 (amended): resolveData never throws; it returns the value reached by
\* following the dot-separated segments as literal property names, or
\* undefined as soon as an intermediate value is falsy (undefined, null, 0,
\* NaN, '' or false).
C11_Total ==
    LET segs == split(resolvePath) IN
    /\ resolved.t # "throw"
    /\ resolved = IF \E k \in 0..(Len(segs) - 1) : ~Truthy(Follow(segs, k, resolveRoot))
                  THEN Undefined
                  ELSE Follow(segs, Len(segs), resolveRoot)

\* C11, reached: 'name.length' on a nested object whose name is '' gives
\* undefined.
C11_Witness ==
    /\ resolvePath = s_name \o <<".">> \o s_length
    /\ resolveRoot = NestedRoot
    /\ Prop(resolveRoot, s_name) = Str(<<>>)
    /\ resolved = Undefined

\* C11 as stated: the walk stops, with undefined, at an intermediate value
\* that is undefined or null only.
C11_AsStated ==
    LET segs == split(resolvePath) IN
    /\ resolved.t # "throw"
    /\ resolved = IF \E k \in 0..(Len(segs) - 1) :
                        Follow(segs, k, resolveRoot).t \in {"undefined", "null", "throw"}
                  THEN Undefined
                  ELSE Follow(segs, Len(segs), resolveRoot)

\* Two elements with the same content, key, style, columns and series.
SameFields(a, b) ==
    /\ a.content = b.content
    /\ a.key = b.key
    /\ a.style = b.style
    /\ a.columns = b.columns
    /\ a.series = b.series

C18_StableIds ==
    /\ \A i, j \in 1..Len(elements) : i # j => elements[i].id # elements[j].id
    /\ lastOp.name \in {"edit", "drag", "resize", "move"} =>
          /\ Len(elements) = Len(lastOp.before)
          /\ \A i \in 1..Len(elements) : elements[i].id = lastOp.before[i].id
    /\ lastOp.name \in {"drop", "paste"} =>
          /\ Len(elements) = Len(lastOp.before) + 1
          /\ SubSeq(elements, 1, Len(lastOp.before)) = lastOp.before
          /\ elements[Len(elements)].id \notin IdsOf(lastOp.before)
    /\ lastOp.name = "paste" =>
          /\ elements[Len(elements)].x = clipboard.x + 20
          /\ elements[Len(elements)].y = clipboard.y + 20

\* C18, reached: an element was dropped, dragged and copied, and its copy
\* pasted 20 px further right and down under another id.
C18_Witness ==
    /\ lastOp.name = "paste"
    /\ Len(elements) = 2
    /\ <<elements[1].x, elements[1].y>> = <<60, 40>>
    /\ <<elements[2].x, elements[2].y>> = <<80, 60>>
    /\ elements[2].id # elements[1].id

\* The edits the history records.
RecordedEdits == {"drop", "edit", "delete", "paste", "move"}

\* The operation changed neither the element list nor the history.
NothingChanged ==
    /\ elements = lastOp.before
    /\ historyIndex = lastOp.index
    /\ Len(history) = lastOp.length

\* C19: an undo right after a recorded edit (drop, property edit, delete,
\* paste, arrow-key move) restores the element list to its value before
\* that edit, and a redo right after it restores the value after the edit;
\* an undo at index 0 and a redo at the last index change nothing.
C19_UndoRedo ==
    /\ (lastOp.edit.name \in RecordedEdits /\ lastOp.edit.phase = "undone") =>
          elements = lastOp.edit.before
    /\ (lastOp.edit.name \in RecordedEdits /\ lastOp.edit.phase = "redone") =>
          elements = lastOp.edit.after
    /\ (lastOp.name = "undo" /\ lastOp.index = 0) => NothingChanged
    /\ (lastOp.name = "redo" /\ lastOp.index = lastOp.length - 1) => NothingChanged

\* The category key contains "year" and not "month", letter case set aside.
YearKey ==
    LET lc == toLowerCase(chartCategoryKey(element)) IN
    EditChart /\ includes(lc, s_year) /\ ~includes(lc, s_month)

\* The category stored on synthetic row i (1-based), as a number.
YearOfRow(i) ==
    StringToNumber(rendered.calc.data[i].f[chartCategoryKey(element)].s)

\* C21 (amended): in edit mode a category key containing "year" and not
\* "month" gives five synthetic rows whose categories are the five
\* sequential year strings 2020, 2021, 2022, 2023, 2024, in that order, and
\* they are the X-axis labels of a bar or line chart.
C21_YearCategories ==
    YearKey =>
        /\ Len(rendered.calc.data) = 5
        /\ YearOfRow(1) = Num(2020)
        /\ \A i \in 2..5 : YearOfRow(i) = NumAdd(YearOfRow(i - 1), Num(1))
        /\ chartType(element) # s_pie =>
              \A i \in 1..5 :
                  rendered.xLabels[i].text = rendered.calc.data[i].f[chartCategoryKey(element)].s

\* C21, reached: a bar chart in edit mode whose category key is a mixed-case
\* key containing "year".
C21_Witness ==
    /\ YearKey
    /\ chartCategoryKey(element) = s_fiscalYear
    /\ chartType(element) = s_bar
    /\ Len(rendered.bars) >= 5

\* C21 as stated: such a key gives four year strings and four synthetic rows.
C21_FourYears ==
    YearKey => Len(rendered.calc.data) = 4

\* What resolving the data key of series si gives on synthetic row i (1-based).
ResolvedOnRow(i, si) ==
    resolveData(rendered.calc.series[si].dataKey, rendered.calc.data[i])

\* An integer v with 20 <= v < 100.
InDummyRange(v) ==
    /\ v.t = "number"
    /\ isFinite(v)
    /\ v.d = 1
    /\ NumLe(Num(20), v)
    /\ NumLt(v, Num(100))

\* C22: in edit mode, resolving the data key of every series on every
\* synthetic row gives an integer v with 20 <= v < 100, whatever the data
\* key (dotted paths included).
C22_ValuesInRange ==
    EditChart =>
        \A i \in 1..Len(rendered.calc.data) : \A si \in 1..Len(rendered.calc.series) :
            InDummyRange(ResolvedOnRow(i, si))

\* The bands taken from the element's size, in px: the title band, the legend
\* band at the side and the legend band above or below.
TitleBand == IF Truthy(element.content) THEN 24 ELSE 0
SideLegendBand ==
    IF showLegend(element) /\ legendPosition(element) \in {s_left, s_right} THEN 100 ELSE 0
TopLegendBand ==
    IF showLegend(element) /\ legendPosition(element) \in {s_top, s_bottom} THEN 40 ELSE 0

\* a - b, and 0 when that is negative
Monus(a, b) == IF NumLt(a, b) THEN Num(0) ELSE NumSub(a, b)

\* C23: the drawing region of a chart is the element's width x height (400
\* and 300 when unset) less the title band (24 px of height, if and only if
\* content is set), less the legend band (100 px of width at the left or
\* right, 40 px of height at the top or bottom, only when the legend is
\* shown), less the padding (left 30 + right 10, top 20 + bottom 25), and
\* neither drawWidth nor drawHeight is negative.
C23_DrawingRegion ==
    rendered.kind = "chart" =>
        LET width == OrElse(element.style.width, Num(400))
            height == OrElse(element.style.height, Num(300))
        IN /\ rendered.calc.drawWidth = Monus(width, Num(SideLegendBand + 30 + 10))
           /\ rendered.calc.drawHeight = Monus(height, Num(TopLegendBand + TitleBand + 20 + 25))
           /\ ~NumLt(rendered.calc.drawWidth, Num(0))
           /\ ~NumLt(rendered.calc.drawHeight, Num(0))
           /\ (rendered.title # Undefined) = (TitleBand = 24)
           /\ (rendered.legend # Undefined) = (SideLegendBand + TopLegendBand > 0)

\* C23, reached: a chart with a title and a legend resized to 20 x 20, where
\* the bands and the padding exceed the element's size.
C23_Witness ==
    /\ rendered.kind = "chart"
    /\ element.style.height = Num(20)
    /\ TitleBand = 24
    /\ TopLegendBand = 40
    /\ rendered.calc.drawHeight = Num(0)
    /\ rendered.calc.drawWidth = Num(0)

\* The rectangle of row i and series si (0-based) of the rendered bar chart.
BarOf(i, si) == rendered.bars[i * Len(rendered.calc.series) + si + 1]

\* C24: in a bar chart with bars, groupWidth = drawWidth / rowCount and
\* barWidth = 0.7 x groupWidth / seriesCount; the bar of row i and series s
\* starts at i x groupWidth + 0.15 x groupWidth + s x barWidth and is
\* barWidth wide, so each bar of a group starts where the bar of the series
\* before it ends, and the group lies inside its slot
\* [i x groupWidth, (i + 1) x groupWidth] and inside [0, drawWidth].
C24_BarGrouping ==
    (rendered.kind = "chart" /\ chartType(element) = s_bar /\ rendered.bars # <<>>) =>
        LET rowCount == Len(rendered.calc.data)
            seriesCount == Len(rendered.calc.series)
            drawWidth == rendered.calc.drawWidth
            groupWidth == NumDiv(drawWidth, Num(rowCount))
            bWidth == NumDiv(NumMul(Fin(7, 10), groupWidth), Num(seriesCount))
        IN /\ rendered.calc.barGroupWidth = groupWidth
           /\ rendered.calc.barWidth = bWidth
           /\ Len(rendered.bars) = rowCount * seriesCount
           /\ \A i \in 0..(rowCount - 1) : \A si \in 0..(seriesCount - 1) :
                 LET bar == BarOf(i, si)
                     slot == NumMul(Num(i), groupWidth)
                     right == NumAdd(bar.x, bar.width)
                 IN /\ bar.row = i /\ bar.series = si
                    /\ bar.width = bWidth
                    /\ bar.x = NumAdd(NumAdd(slot, NumMul(Fin(15, 100), groupWidth)),
                                      NumMul(Num(si), bWidth))
                    /\ si > 0 => bar.x = NumAdd(BarOf(i, si - 1).x, BarOf(i, si - 1).width)
                    /\ NumLe(slot, bar.x)
                    /\ NumLe(right, NumAdd(slot, groupWidth))
                    /\ NumLe(Num(0), bar.x)
                    /\ NumLe(right, drawWidth)

\* C24, reached: a bar chart of two series over several rows with a drawing
\* width above 0.
C24_Witness ==
    /\ rendered.kind = "chart"
    /\ chartType(element) = s_bar
    /\ Len(rendered.calc.series) = 2
    /\ Len(rendered.calc.data) >= 3
    /\ Len(rendered.bars) >= 6
    /\ NumLt(Num(0), rendered.calc.drawWidth)
    /\ NumLt(BarOf(0, 0).x, BarOf(0, 1).x)

\* A pie with wedges is rendered.
PieDrawn == rendered.kind = "chart" /\ chartType(element) = s_pie /\ ~rendered.pie.noData

\* The rows before row n (1-based) whose wedge is drawn.
DrawnBefore(n) == {k \in 1..(n - 1) : rendered.pie.slices[k].drawn}

\* The last of a non-empty set of row numbers.
Last(rows) == CHOOSE k \in rows : \A j \in rows : j <= k

\* C25: the wedges of a pie are drawn consecutively in row order (angles in
\* turns, one turn being 2 pi): a row whose value is <= 0 draws no wedge; the
\* wedge of any other row i has the angle value_i / total; the first drawn
\* wedge starts at 0 and each later one at the end angle of the wedge drawn
\* before it, so a skipped row does not advance the start angle.
C25_ConsecutiveWedges ==
    PieDrawn =>
        LET vals == pieValues(rendered.calc.series, rendered.calc.data)
            slices == rendered.pie.slices
        IN /\ Len(slices) = Len(rendered.calc.data)
           /\ \A n \in 1..Len(slices) :
                 /\ slices[n].row = n - 1
                 /\ slices[n].drawn = ~NumLe(vals[n], Num(0))
                 /\ slices[n].drawn =>
                       /\ slices[n].sliceAngle = NumDiv(vals[n], rendered.pie.total)
                       /\ slices[n].start =
                             IF DrawnBefore(n) = {} THEN Num(0)
                             ELSE NumAdd(slices[Last(DrawnBefore(n))].start,
                                         slices[Last(DrawnBefore(n))].sliceAngle)

\* C25, reached: a pie over three rows whose second value is negative: the
\* third wedge starts where the first one ends.
C25_Witness ==
    /\ PieDrawn
    /\ Len(rendered.pie.slices) = 3
    /\ rendered.pie.slices[1].drawn
    /\ ~rendered.pie.slices[2].drawn
    /\ rendered.pie.slices[3].drawn
    /\ rendered.pie.slices[3].start = rendered.pie.slices[1].sliceAngle
    /\ NumLt(Num(0), rendered.pie.slices[3].start)

\* C30: every row of a pie with a positive value has a wedge whose sweep
\* angle is above 0 and below a full turn (angles in turns), so that the
\* start point and the end point of its arc are distinct, for every row
\* count >= 1.
C30_DrawableWedges ==
    PieDrawn =>
        LET vals == pieValues(rendered.calc.series, rendered.calc.data) IN
        \A n \in 1..Len(rendered.pie.slices) :
            NumLt(Num(0), vals[n]) =>
                /\ rendered.pie.slices[n].drawn
                /\ NumLt(Num(0), rendered.pie.slices[n].sliceAngle)
                /\ NumLt(rendered.pie.slices[n].sliceAngle, Num(1))

\* The gestures of the mouse that end with onDragEnd.
Gestures == {"drag", "resize"}

\* C26: when a drag or a resize of an element has completed, the history
\* entry at historyIndex is the current element list, with the element at
\* its new position and size; and an undo followed at once by a redo brings
\* the element list back to what the gesture left.
C26_GestureRecorded ==
    /\ lastOp.name \in Gestures => history[historyIndex + 1] = elements
    /\ (lastOp.edit.name \in Gestures /\ lastOp.edit.phase = "redone") =>
          elements = lastOp.edit.after

\* The operations that record the element list in the history.
Recording == RecordedEdits \cup Gestures \cup {"import"}

\* C28: historyIndex is an index of the history,
\* 0 <= historyIndex <= history.length - 1, and right after an operation
\* that records (made at index i) the history is its first i + 1 entries
\* followed by the new one, and historyIndex = history.length - 1: the
\* entries a redo could have reached are discarded.
C28_HistoryIndex ==
    /\ 0 <= historyIndex
    /\ historyIndex <= Len(history) - 1
    /\ lastOp.name \in Recording =>
          /\ historyIndex = Len(history) - 1
          /\ historyIndex = lastOp.index + 1

\* C28, reached: an edit recorded after an undo, at an index below the last
\* one of the history, which then is the last entry.
C28_Witness ==
    /\ lastOp.name \in RecordedEdits
    /\ lastOp.index < lastOp.length - 1
    /\ historyIndex = Len(history) - 1
    /\ Len(history) = lastOp.index + 2

\* A mouse move of a resize gesture has reported a size to onResize.
Reported == resizing # Null /\ resizing.reported # Null

\* C29: for every mouse move of a resize gesture the width and the height
\* reported to onResize are >= 20 and the edge opposite the dragged handle
\* stays where it was: newX + newWidth = startLeft + startWidth with a west
\* handle, newY + newHeight = startTop + startHeight with a north handle, x
\* unchanged with an east handle and y unchanged with a south handle, also
\* when the size is clamped at 20; and handleResize stores what was reported.
C29_ResizeAnchored ==
    Reported =>
        LET r == resizing.reported
            start == resizing.start
            direction == resizing.direction
            el == FindById(elements, resizing.id)
        IN /\ r.width >= 20
           /\ r.height >= 20
           /\ includes(direction, <<"w">>) => r.x + r.width = start.left + start.width
           /\ includes(direction, <<"n">>) => r.y + r.height = start.top + start.height
           /\ includes(direction, <<"e">>) => r.x = start.left
           /\ includes(direction, <<"s">>) => r.y = start.top
           /\ <<el.x, el.y, el.style.width, el.style.height>> =
                 <<r.x, r.y, Num(r.width), Num(r.height)>>

\* C29, reached: the north-west handle dragged past the opposite corner, so
\* that the width and the height are clamped at 20 and x and y are moved to
\* keep the south-east corner.
C29_Witness ==
    /\ Reported
    /\ resizing.direction = <<"n","w">>
    /\ resizing.reported.width = 20
    /\ resizing.reported.height = 20
    /\ resizing.reported.x = resizing.start.left + resizing.start.width - 20
    /\ resizing.reported.x > resizing.start.left

\* The response of a layout fix has just been applied.
LayoutApplied ==
    layoutRequest # Null /\ layoutRequest.status = "applied" /\ lastOp.name = "layoutFix"

\* C27: when the response of a layout-fix request is applied, the resulting
\* element list is the list as it was when the response arrived (with the
\* changes made while the request was in flight) with only the x and the y
\* of the elements named in the response replaced.
C27_ChangesRetained ==
    LayoutApplied => elements = positioned(lastOp.before, layoutRequest.response)

====
